---- MODULE Spec2Model ----
(***************************************************************************)
(* A model of the date-time core of momentous-rs: the normalized Gregorian *)
(* date, the leap-second segment store, the DateTime builder and the       *)
(* DateTime arithmetic (add_years .. add_seconds) with its carry.          *)
(*                                                                         *)
(* Integers wider than 32 bits (the i64/u64 second counts) are held as     *)
(* three limbs <<h, m, s>> standing for (h * LimbBase + m) * 86400 + s,    *)
(* with 0 <= s < 86400 and 0 <= m < LimbBase, so that the arithmetic of    *)
(* the source is exact over the whole i64 range.                           *)
(***************************************************************************)
EXTENDS Integers, Sequences, FiniteSets, TLC

VARIABLES
    overflow_checks, \* build profile: TRUE = integer overflow panics, FALSE = it wraps
    builder,         \* the DateTimeBuilder: its nine Option fields
    pc,              \* "builder" | "value" | "carry" | "none" | "error" | "panic"
    dt,              \* the DateTime the caller holds (w0 as bit fields, w1), or NoDt
    carry,           \* the Carry of the DateTimeWithCarry held: [days, seconds]
    error,           \* the Error of a failed checked_build, or NoError
    calls,           \* the calls made on DateTime values so far: <<[op, arg, from]>>
    gdate,           \* the GregorianNormalizedDate held on its own, or NoGnd
    loader,          \* the locals of load_leap_segments while it runs, or NoLoader
    cursor           \* the cursor held: its slice and its pos, or NoCursor

vars == <<overflow_checks, builder, pc, dt, carry, error, calls, gdate, loader, cursor>>

-----------------------------------------------------------------------------
(* Constants of the source.                                                *)

SECONDS_PER_DAY == 86400
SECONDS_PER_HOUR == 3600
SECONDS_PER_MINUTE == 60
HOURS_PER_DAY == 24
MINUTES_PER_HOUR == 60
MINUTES_PER_DAY == 1440

GREGORIAN_CYCLE_DAYS == 97 * 366 + 303 * 365
GREGORIAN_CENTURY_DAYS == 24 * 366 + 76 * 365
GREGORIAN_QUADRENNIUM_DAYS == 3 * 365 + 1 * 366
GREGORIAN_YEAR_DAYS == 365
GREGORIAN_CYCLE_YEARS == 400
GREGORIAN_CYCLE_CENTURIES == 4
GREGORIAN_CENTURY_YEARS == 100
GREGORIAN_CENTURY_QUADRENNIUMS == 25
GREGORIAN_QUADRENNIUM_YEARS == 4
GREGORIAN_NORMALIZED_DATE_OFFSET_DAYS == 11017
JANUARY_1_DAY_OFFSET == 306

I8_MIN == -128
I8_MAX == 127
I32_MAX == 2147483647
I32_MIN == -I32_MAX - 1

\* GregorianNormalizedDate::MIN_YEAR / MAX_YEAR / MIN_FIXED_DAY / MAX_FIXED_DAY
GND_MIN_YEAR == 2000 + I8_MIN * GREGORIAN_CYCLE_YEARS + 1
GND_MAX_YEAR == 2000 + (I8_MAX + 1) * GREGORIAN_CYCLE_YEARS - 1
GND_MIN_FIXED_DAY == GREGORIAN_NORMALIZED_DATE_OFFSET_DAYS + I8_MIN * GREGORIAN_CYCLE_DAYS
GND_MAX_FIXED_DAY == GREGORIAN_NORMALIZED_DATE_OFFSET_DAYS + (I8_MAX + 1) * GREGORIAN_CYCLE_DAYS - 1

\* The range of DateTime (iso8601/date_time.rs)
MAX_FIXED_DAY == 2932896
MIN_FIXED_DAY == -719528
MIN_YEAR == 0
MAX_YEAR == 9999

-----------------------------------------------------------------------------
(* Integer helpers.                                                        *)

Min(a, b) == IF a < b THEN a ELSE b

\* F applied to the value of e: `let x = e; F(x)`.
With(e, F(_)) == CHOOSE r \in {F(x) : x \in {e}} : TRUE

\* Wrapping `as` casts of Rust.
AsU8(x) == x % 256
AsU16(x) == x % 65536
AsI8(x) == ((x + 128) % 256) - 128
AsI16(x) == ((x + 32768) % 65536) - 32768

InI8(x) == I8_MIN <= x /\ x <= I8_MAX
InI16(x) == -32768 <= x /\ x <= 32767
InU8(x) == 0 <= x /\ x <= 255

\* num_integer's div_mod_floor, for a positive divisor.
DivModFloor(a, b) == <<a \div b, a % b>>

\* div_rem.rs, ClampedDivRem::clamped_div_rem on an unsigned dividend.
ClampedDivRem(a, divisor, max_quotient) ==
    With(Min(a \div divisor, max_quotient), LAMBDA quotient :
        <<quotient, a - quotient * divisor>>)

\* div_rem.rs, RemFloor::rem_floor (Rust's % truncates towards zero).
RemTrunc(a, b) == IF a >= 0 THEN a % b ELSE -((-a) % b)
RemFloor(a, b) ==
    IF a > 0 /\ b < 0 THEN RemTrunc(a - 1, b) + b + 1
    ELSE IF a < 0 /\ b > 0 THEN RemTrunc(a + 1, b) + b - 1
    ELSE RemTrunc(a, b)

-----------------------------------------------------------------------------
(* 64-bit integers as limbs.                                               *)

LimbBase == 1000 * 1000 * 1000

WNorm(h, m, s) ==
    With(m + (s \div SECONDS_PER_DAY), LAMBDA m1 :
        <<h + (m1 \div LimbBase), m1 % LimbBase, s % SECONDS_PER_DAY>>)

WInt(i) == WNorm(0, 0, i)
\* days * 86400 + second
WDaysSeconds(days, second) == WNorm(0, days, second)
WAdd(a, b) == WNorm(a[1] + b[1], a[2] + b[2], a[3] + b[3])
WSub(a, b) == WNorm(a[1] - b[1], a[2] - b[2], a[3] - b[3])
WLess(a, b) ==
    \/ a[1] < b[1]
    \/ a[1] = b[1] /\ a[2] < b[2]
    \/ a[1] = b[1] /\ a[2] = b[2] /\ a[3] < b[3]
WLeq(a, b) == a = b \/ WLess(a, b)

\* i64::MAX = 9223372036854775807 and i64::MIN = -9223372036854775808
I64_MAX == <<106751, 991167300, 55807>>
I64_MIN == <<-106752, 8832699, 30592>>
InI64(a) == WLeq(I64_MIN, a) /\ WLeq(a, I64_MAX)

\* An i64 as four 16-bit limbs <<x3, x2, x1, x0>> in two's complement, for the
\* arithmetic on minutes, whose quotient by 1440 is cast to i32.
XBase == 65536
XInt(i) ==
    <<IF i < 0 THEN XBase - 1 ELSE 0, IF i < 0 THEN XBase - 1 ELSE 0,
      (i \div XBase) % XBase, i % XBase>>
XNegative(a) == a[1] >= XBase \div 2
\* wrapping addition
XAdd(a, b) ==
    With(a[4] + b[4], LAMBDA s0 :
    With(a[3] + b[3] + (s0 \div XBase), LAMBDA s1 :
    With(a[2] + b[2] + (s1 \div XBase), LAMBDA s2 :
    With(a[1] + b[1] + (s2 \div XBase), LAMBDA s3 :
        <<s3 % XBase, s2 % XBase, s1 % XBase, s0 % XBase>>))))
XAddOverflows(a, b) ==
    XNegative(a) = XNegative(b) /\ XNegative(XAdd(a, b)) # XNegative(a)
\* wrapping multiplication by a small k >= 0
XMul(a, k) ==
    With(a[4] * k, LAMBDA p0 :
    With(a[3] * k + (p0 \div XBase), LAMBDA p1 :
    With(a[2] * k + (p1 \div XBase), LAMBDA p2 :
    With(a[1] * k + (p2 \div XBase), LAMBDA p3 :
        <<p3 % XBase, p2 % XBase, p1 % XBase, p0 % XBase>>))))
XNot(a) == <<XBase - 1 - a[1], XBase - 1 - a[2], XBase - 1 - a[3], XBase - 1 - a[4]>>
XNeg(a) == XAdd(XNot(a), XInt(1))
\* <<quotient, remainder>> of the limbs read as an unsigned number, 0 < d < 2^15
XUDivMod(a, d) ==
    With(a[1] % d, LAMBDA r3 :
    With(r3 * XBase + a[2], LAMBDA c2 :
    With((c2 % d) * XBase + a[3], LAMBDA c1 :
    With((c1 % d) * XBase + a[4], LAMBDA c0 :
        <<(<<a[1] \div d, c2 \div d, c1 \div d, c0 \div d>>), c0 % d>>))))
\* num_integer div_mod_floor of an i64 by d: <<quotient (an i64), remainder>>
XDivModFloor(a, d) ==
    IF ~XNegative(a) THEN XUDivMod(a, d)
    ELSE
    With(XUDivMod(XNeg(a), d), LAMBDA n :
        IF n[2] = 0 THEN <<XNeg(n[1]), 0>> ELSE <<XNot(n[1]), d - n[2]>>)
\* `as i32` of an i64, and whether the cast keeps the value
XAsI32(a) == (a[3] - (IF a[3] >= XBase \div 2 THEN XBase ELSE 0)) * XBase + a[4]
XFitsI32(a) == a = XInt(XAsI32(a))
X64_MAX == <<XBase \div 2 - 1, XBase - 1, XBase - 1, XBase - 1>>
X64_MIN == <<XBase \div 2, 0, 0, 0>>

-----------------------------------------------------------------------------
(* gregorian_normalized_date.rs                                            *)

GND(cycle, century, quadrennium, year, day) ==
    [cycle |-> cycle, century |-> century, quadrennium |-> quadrennium,
     year |-> year, day |-> day]

month_from_year_day(day) == AsU8((5 * day + 2) \div 153)

year_day_from_month(month) == (153 * month + 2) \div 5

month_day_from_year_day(year_day) ==
    With(month_from_year_day(year_day), LAMBDA month :
        <<month, AsU8(year_day - year_day_from_month(month))>>)

is_leap_year(century, quadrennium, year) ==
    year = 3 /\ ~(quadrennium = 24 /\ century # 3)

\* Every Option or Result below is a record with a tag: "Some" / "Ok" with the
\* value, None, "Err" with the error kind, or Panic for a call that panics.
None == [tag |-> "None"]
Panic == [tag |-> "Panic"]
Some(v) == [tag |-> "Some", v |-> v]
Ok(v) == [tag |-> "Ok", v |-> v]
Err(e) == [tag |-> "Err", err |-> e]

\* from_day, had it divided the days of the cycle into centuries with no clamp
\* on the quotient.
from_day_unclamped_century(day) ==
    IF ~(GND_MIN_FIXED_DAY <= day /\ day <= GND_MAX_FIXED_DAY) THEN None
    ELSE
    With(DivModFloor(day - GREGORIAN_NORMALIZED_DATE_OFFSET_DAYS, GREGORIAN_CYCLE_DAYS),
         LAMBDA cd :
    With(<<cd[2] \div GREGORIAN_CENTURY_DAYS, cd[2] % GREGORIAN_CENTURY_DAYS>>,
         LAMBDA ce :
    With(AsU16(ce[2]), LAMBDA days_into_century :
    With(ClampedDivRem(days_into_century % GREGORIAN_QUADRENNIUM_DAYS,
                       GREGORIAN_YEAR_DAYS, 3),
         LAMBDA yd :
        Some(GND(AsI8(cd[1]), ce[1],
                 AsU8(days_into_century \div GREGORIAN_QUADRENNIUM_DAYS),
                 yd[1], yd[2]))))))

from_day(day) ==
    IF ~(GND_MIN_FIXED_DAY <= day /\ day <= GND_MAX_FIXED_DAY) THEN None
    ELSE
    With(DivModFloor(day - GREGORIAN_NORMALIZED_DATE_OFFSET_DAYS, GREGORIAN_CYCLE_DAYS),
         LAMBDA cd :            \* <<cycle, days_into_cycle>>
    With(ClampedDivRem(cd[2], GREGORIAN_CENTURY_DAYS, 3),
         LAMBDA ce :            \* <<century, days_into_century>>
    With(AsU16(ce[2]), LAMBDA days_into_century :
    With(ClampedDivRem(days_into_century % GREGORIAN_QUADRENNIUM_DAYS,
                       GREGORIAN_YEAR_DAYS, 3),
         LAMBDA yd :            \* <<year, day>>
        Some(GND(AsI8(cd[1]), ce[1],
                 AsU8(days_into_century \div GREGORIAN_QUADRENNIUM_DAYS),
                 yd[1], yd[2]))))))

to_day(g) ==
    g.cycle * GREGORIAN_CYCLE_DAYS
        + g.century * GREGORIAN_CENTURY_DAYS
        + g.quadrennium * GREGORIAN_QUADRENNIUM_DAYS
        + g.year * GREGORIAN_YEAR_DAYS
        + g.day
        + GREGORIAN_NORMALIZED_DATE_OFFSET_DAYS

\* Result<GregorianNormalizedDate, Error>; Panic when `day - 1` underflows u8
\* with overflow checks on.
ErrInvalidDate == "InvalidDate"
ErrDateOutOfBounds == "DateOutOfBounds"

from_date(year, month, day, checks) ==
    IF ~(GND_MIN_YEAR <= year /\ year <= GND_MAX_YEAR) THEN Err(ErrDateOutOfBounds)
    ELSE IF ~(1 <= month /\ month <= 12) THEN Err(ErrInvalidDate)
    ELSE IF day = 0 /\ checks THEN Panic
    ELSE
    With(AsU8(day - 1), LAMBDA day0 :
    With(IF month - 1 < 2 THEN <<month - 1 + 12 - 2, year - 1 - 2000>>
         ELSE <<month - 1 - 2, year - 2000>>,
         LAMBDA my :            \* <<month, year>> counted from March 2000
    With(DivModFloor(my[2], GREGORIAN_CYCLE_YEARS),
         LAMBDA cy :            \* <<cycle, years_into_cycle>>
    With(ClampedDivRem(AsU16(cy[2]), GREGORIAN_CENTURY_YEARS, 3),
         LAMBDA ce :            \* <<century, years_into_century>>
    With(ClampedDivRem(ce[2], GREGORIAN_QUADRENNIUM_YEARS, 24),
         LAMBDA qu :            \* <<quadrennium, years_into_quadrennium>>
    With(year_day_from_month(my[1]), LAMBDA month_day_offset :
    With(IF my[1] = 11
         THEN IF is_leap_year(ce[1], qu[1], AsU8(qu[2])) THEN 29 ELSE 28
         ELSE AsU8(year_day_from_month(my[1] + 1) - month_day_offset),
         LAMBDA total_days_in_month :
        IF day0 >= total_days_in_month THEN Err(ErrInvalidDate)
        ELSE Ok(GND(AsI8(cy[1]), ce[1], qu[1], AsU8(qu[2]),
                    month_day_offset + day0)))))))))

unnormalized_year(g) ==
    LET year == 2000 + 400 * g.cycle + 100 * g.century + 4 * g.quadrennium + g.year
    IN  IF g.day >= JANUARY_1_DAY_OFFSET THEN year + 1 ELSE year

unnormalized_month(g) ==
    LET month == month_from_year_day(g.day) + 3
    IN  IF month > 12 THEN month - 12 ELSE month

unnormalized_day(g) == month_day_from_year_day(g.day)[2] + 1

\* Arithmetic that overflows its type panics when overflow checks are on and
\* wraps when they are off.

\* GregorianNormalizedDate::add_years_no_carry: Some(the new date), or Panic.
add_years_no_carry(g, years, checks) ==
    With(g.year + years, LAMBDA sum1 :
    With(DivModFloor(AsI16(sum1), GREGORIAN_QUADRENNIUM_YEARS),
         LAMBDA qy :            \* <<quadrenniums, year>>
    With(g.quadrennium + qy[1], LAMBDA sum2 :
    With(DivModFloor(AsI16(sum2), GREGORIAN_CENTURY_QUADRENNIUMS),
         LAMBDA cq :            \* <<centuries, quadrennium>>
    With(g.century + AsI8(cq[1]), LAMBDA sum3 :
    With(DivModFloor(AsI8(sum3), GREGORIAN_CYCLE_CENTURIES),
         LAMBDA cc :            \* <<cycle, century>>
    With(g.cycle + cc[1], LAMBDA sum4 :
        IF checks /\ (~InI16(sum1) \/ ~InI16(sum2) \/ ~InI8(sum3) \/ ~InI8(sum4))
        THEN Panic
        ELSE Some(GND(AsI8(sum4), AsU8(cc[2]), AsU8(cq[2]), AsU8(qy[2]), g.day)))))))))

\* add_years, had it not clamped day 365 of a year that is no leap year.
add_years_unclamped(g, years, checks) ==
    With(add_years_no_carry(g, years, checks), LAMBDA r :
        IF r.tag = "Panic" THEN Panic
        ELSE Some([gnd |-> r.v, carry |-> FALSE]))

\* GregorianNormalizedDate::add_years: Some([gnd, carry]) (carry is the bool day
\* carry), or Panic.
add_years(g, years, checks) ==
    With(add_years_no_carry(g, years, checks), LAMBDA r :
        IF r.tag = "Panic" THEN Panic
        ELSE IF r.v.day = 365 /\ ~is_leap_year(r.v.century, r.v.quadrennium, r.v.year)
        THEN Some([gnd |-> [r.v EXCEPT !.day = 364], carry |-> TRUE])
        ELSE Some([gnd |-> r.v, carry |-> FALSE]))

\* add_months, had it taken the 0-based day of the month for the 1-based one in
\* the carry.
add_months_zero_based_carry(g, months, checks) ==
    With(month_day_from_year_day(g.day),
         LAMBDA md :            \* <<month, day_in_month>>
        \* month as i32 + months: an i32 sum, wrapped without overflow checks
        IF checks /\ months > I32_MAX - md[1] THEN Panic
        ELSE
    With(DivModFloor(IF months > I32_MAX - md[1]
                     THEN ((months - I32_MAX) - 1) + md[1] + I32_MIN
                     ELSE md[1] + months, 12),
         LAMBDA ym :            \* <<years, month>>
    With(AsU8(ym[2]), LAMBDA month :
    With(add_years_no_carry(g, AsI16(ym[1]), checks), LAMBDA r :
        IF r.tag = "Panic" THEN Panic
        ELSE
        With(IF month = 11
             THEN IF is_leap_year(r.v.century, r.v.quadrennium, r.v.year) THEN 29 ELSE 28
             ELSE AsU8(year_day_from_month(month + 1) - year_day_from_month(month)),
             LAMBDA total_days_in_month :
        With(IF md[2] >= total_days_in_month
             THEN md[2] - total_days_in_month
             ELSE 0,
             LAMBDA c :
            Some([gnd |-> [r.v EXCEPT !.day = year_day_from_month(month) + (md[2] - c)],
                  carry |-> c])))))))

\* GregorianNormalizedDate::add_months: Some([gnd, carry]) (carry is the u8 day
\* carry), or Panic.
add_months(g, months, checks) ==
    With(month_day_from_year_day(g.day),
         LAMBDA md :            \* <<month, day_in_month>>
        \* month as i32 + months: an i32 sum, wrapped without overflow checks
        IF checks /\ months > I32_MAX - md[1] THEN Panic
        ELSE
    With(DivModFloor(IF months > I32_MAX - md[1]
                     THEN ((months - I32_MAX) - 1) + md[1] + I32_MIN
                     ELSE md[1] + months, 12),
         LAMBDA ym :            \* <<years, month>>
    With(AsU8(ym[2]), LAMBDA month :
    With(add_years_no_carry(g, AsI16(ym[1]), checks), LAMBDA r :
        IF r.tag = "Panic" THEN Panic
        ELSE
        With(IF month = 11
             THEN IF is_leap_year(r.v.century, r.v.quadrennium, r.v.year) THEN 29 ELSE 28
             ELSE AsU8(year_day_from_month(month + 1) - year_day_from_month(month)),
             LAMBDA total_days_in_month :
        With(IF md[2] >= total_days_in_month
             THEN (md[2] + 1) - total_days_in_month
             ELSE 0,
             LAMBDA c :
            Some([gnd |-> [r.v EXCEPT !.day = year_day_from_month(month) + (md[2] - c)],
                  carry |-> c])))))))

year_length(g) == IF is_leap_year(g.century, g.quadrennium, g.year) THEN 366 ELSE 365

ErrOutOfBounds == "OutOfBounds"

\* add_days, had its fast path forward counted the days left in the year one
\* too many.
add_days_past_year_end(g, days, checks) ==
    IF days = 0 THEN Ok(g)
    ELSE IF days = I32_MIN THEN (IF checks THEN Panic ELSE Ok(g))
    ELSE IF days < 0 /\ g.day >= -days
    THEN Ok([g EXCEPT !.day = AsU16(g.day + days)])
    ELSE IF days > 0 /\ days <= year_length(g) - g.day
    THEN Ok([g EXCEPT !.day = g.day + AsU16(days)])
    ELSE
    With(to_day(g), LAMBDA d :
    With(IF (days > 0 /\ d > I32_MAX - days) \/ (days < 0 /\ d < I32_MIN - days)
         THEN None
         ELSE from_day(d + days),
         LAMBDA new :
        IF new.tag = "None" THEN Err(ErrOutOfBounds) ELSE Ok(new.v)))

\* GregorianNormalizedDate::add_days: Ok(gnd) (the new *self), Err(OutOfBounds), or
\* Panic (the negation of i32::MIN with overflow checks on; without them -days
\* is i32::MIN again, the comparison holds and the low 16 bits of the sum are
\* the day unchanged).
add_days(g, days, checks) ==
    IF days = 0 THEN Ok(g)
    ELSE IF days = I32_MIN THEN (IF checks THEN Panic ELSE Ok(g))
    ELSE IF days < 0 /\ g.day >= -days
    THEN Ok([g EXCEPT !.day = AsU16(g.day + days)])
    ELSE IF days > 0 /\ days <= (year_length(g) - 1) - g.day
    THEN Ok([g EXCEPT !.day = g.day + AsU16(days)])
    ELSE
    With(to_day(g), LAMBDA d :
    With(IF (days > 0 /\ d > I32_MAX - days) \/ (days < 0 /\ d < I32_MIN - days)
         THEN None
         ELSE from_day(d + days),
         LAMBDA new :
        IF new.tag = "None" THEN Err(ErrOutOfBounds) ELSE Ok(new.v)))

\* impl Ord for GregorianNormalizedDate: lexicographic on the five fields.
GndLess(a, b) ==
    \/ a.cycle < b.cycle
    \/ a.cycle = b.cycle /\ a.century < b.century
    \/ a.cycle = b.cycle /\ a.century = b.century /\ a.quadrennium < b.quadrennium
    \/ a.cycle = b.cycle /\ a.century = b.century /\ a.quadrennium = b.quadrennium
        /\ a.year < b.year
    \/ a.cycle = b.cycle /\ a.century = b.century /\ a.quadrennium = b.quadrennium
        /\ a.year = b.year /\ a.day < b.day

-----------------------------------------------------------------------------
(* zoneinfo.rs: the leap-second table and the segment store.               *)

\* tz.leap_seconds of right/UTC: <<timestamp, leap_second_count>>.
LeapTable == <<
    <<78796800, 1>>, <<94694401, 2>>, <<126230402, 3>>, <<157766403, 4>>,
    <<189302404, 5>>, <<220924805, 6>>, <<252460806, 7>>, <<283996807, 8>>,
    <<315532808, 9>>, <<362793609, 10>>, <<394329610, 11>>, <<425865611, 12>>,
    <<489024012, 13>>, <<567993613, 14>>, <<631152014, 15>>, <<662688015, 16>>,
    <<709948816, 17>>, <<741484817, 18>>, <<773020818, 19>>, <<820454419, 20>>,
    <<867715220, 21>>, <<915148821, 22>>, <<1136073622, 23>>, <<1230768023, 24>>,
    <<1341100824, 25>>, <<1435708825, 26>>, <<1483228826, 27>> >>

RECURSIVE LoadLoop(_, _, _, _, _)
LoadLoop(i, segments, start_instant, start_day, previous_leap_second_total) ==
    IF i > Len(LeapTable) THEN segments
    ELSE
    LET end_day == LeapTable[i][1] \div 86400
        leap_second_total == LeapTable[i][2]
        leap_seconds == AsI8(leap_second_total - previous_leap_second_total)
        duration_days == end_day - start_day
        duration_seconds == duration_days * 86400 + leap_seconds
        segment == [start_instant |-> start_instant,
                    start_day |-> start_day,
                    duration_days |-> duration_days,
                    leap_seconds |-> leap_seconds,
                    accumulated_leap_seconds |-> previous_leap_second_total]
    IN  LoadLoop(i + 1, Append(segments, segment), start_instant + duration_seconds,
                 start_day + duration_days, leap_second_total)

load_leap_segments == LoadLoop(1, <<>>, 0, 0, 0)

Segments == load_leap_segments

end_day(s) == s.start_day + s.duration_days
end_instant(s) == s.start_instant + s.duration_days * 86400 + s.leap_seconds

\* slice::binary_search_by with a comparator cmp(i) in {"Less", "Equal", "Greater"}:
\* Ok(index) or Err(insertion index) (indices are 0-based).
RECURSIVE BinarySearch(_, _, _)
BinarySearch(cmp, left, right) ==
    IF left >= right THEN Err(left)
    ELSE
    With(left + ((right - left) \div 2), LAMBDA mid :
    With(cmp[mid], LAMBDA c :
        IF c = "Less" THEN BinarySearch(cmp, mid + 1, right)
        ELSE IF c = "Greater" THEN BinarySearch(cmp, left, mid)
        ELSE Ok(mid)))

\* The three-way result of a lookup; AssertFailed when the failed search lands
\* strictly inside the list.
SegmentLookup(search_result) ==
    IF search_result.tag = "Ok"
    THEN [kind |-> "In", segment |-> Segments[search_result.v + 1]]
    ELSE IF search_result.err = 0
    THEN [kind |-> "BeforeFirst", segment |-> Segments[1]]
    ELSE IF search_result.err = Len(Segments)
    THEN [kind |-> "AfterLast", segment |-> Segments[Len(Segments)]]
    ELSE [kind |-> "AssertFailed"]

by_day(day) ==
    With([i \in 0..(Len(Segments) - 1) |->
            IF day < Segments[i + 1].start_day THEN "Greater"
            ELSE IF day < Segments[i + 1].start_day + Segments[i + 1].duration_days
            THEN "Equal"
            ELSE "Less"],
         LAMBDA cmp :
    With(BinarySearch(cmp, 0, Len(Segments)), LAMBDA search_result :
        SegmentLookup(search_result)))

\* by_instant, had it ended a segment after its days and not after its leap
\* seconds.
by_instant_without_leap_second(instant) ==
    With([i \in 0..(Len(Segments) - 1) |->
            IF WLess(instant, WInt(Segments[i + 1].start_instant)) THEN "Greater"
            ELSE IF WLess(instant, WInt(Segments[i + 1].start_instant
                                            + Segments[i + 1].duration_days * 86400))
            THEN "Equal"
            ELSE "Less"],
         LAMBDA cmp :
    With(BinarySearch(cmp, 0, Len(Segments)), LAMBDA search_result :
        SegmentLookup(search_result)))

\* by_instant on an i64 number of seconds (limbs).
by_instant(instant) ==
    With([i \in 0..(Len(Segments) - 1) |->
            IF WLess(instant, WInt(Segments[i + 1].start_instant)) THEN "Greater"
            ELSE IF WLess(instant, WInt(end_instant(Segments[i + 1]))) THEN "Equal"
            ELSE "Less"],
         LAMBDA cmp :
    With(BinarySearch(cmp, 0, Len(Segments)), LAMBDA search_result :
        SegmentLookup(search_result)))

-----------------------------------------------------------------------------
(* iso8601/date_time.rs: the packed DateTime and its accessors.             *)

encode_precision(precision) ==
    CASE precision = "Millennia" -> 0
      [] precision = "Centuries" -> 1
      [] precision = "Decades" -> 2
      [] precision = "Years" -> 3
      [] precision = "Months" -> 4
      [] precision = "Weeks" -> 5
      [] precision = "Days" -> 6
      [] precision = "Hours" -> 7
      [] precision = "Minutes" -> 8
      [] precision = "Seconds" -> 9
      [] precision = "Milliseconds" -> 10
      [] precision = "Microseconds" -> 11
      [] precision = "Nanoseconds" -> 12

decode_precision(p) ==
    CASE p = 0 -> "Millennia"
      [] p = 1 -> "Centuries"
      [] p = 2 -> "Decades"
      [] p = 3 -> "Years"
      [] p = 4 -> "Months"
      [] p = 5 -> "Weeks"
      [] p = 6 -> "Days"
      [] p = 7 -> "Hours"
      [] p = 8 -> "Minutes"
      [] p = 9 -> "Seconds"
      [] p = 10 -> "Milliseconds"
      [] p = 11 -> "Microseconds"
      [] OTHER -> "Nanoseconds"

\* w0 is held as its bit fields, lowest first:
\*   S  bits 0..15, D bits 16..24, Y bits 25..26, Q bits 27..31, C bits 33..34,
\*   E bits 35..39, P bits 41.., S16 bit 56, N the bits of
\*   (nanosecond & 0x7FFF0000) << 48 that are left in a u64: none, as the lowest
\*   of them is bit 16 + 48 = 64.
pack0(precision, gnd, second, nanosecond) ==
    [N |-> 0,
     P |-> encode_precision(precision),
     S16 |-> (second \div 65536) % 2,
     E |-> (gnd.cycle + 6) % 32,
     C |-> gnd.century % 4,
     Q |-> gnd.quadrennium % 32,
     Y |-> gnd.year % 4,
     D |-> gnd.day % 512,
     S |-> second % 65536]

\* <<precision, gnd, second, nanosecond>>
unpack0(w0) ==
    \* (w0 >> 41) as u8: P in bits 0..3, bit 7 is bit 48 of w0 (the lowest of N)
    <<decode_precision(w0.P + 128 * (w0.N % 2)),
      GND(AsI8(w0.E) - 6, w0.C, w0.Q, w0.Y, w0.D),
      w0.S16 * 65536 + w0.S,
      (w0.N % 32768) * 65536>>

pack(precision, gnd, second, nanosecond) ==
    [w0 |-> pack0(precision, gnd, second, nanosecond), w1 |-> nanosecond % 65536]

\* nanosecond | w1: the two have no bit in common
unpack(w0, w1) ==
    With(unpack0(w0), LAMBDA u : <<u[1], u[2], u[3], u[4] + w1>>)

DateTimeNew(precision, gnd, second, nanosecond) == pack(precision, gnd, second, nanosecond)

Gnd(t) == unpack0(t.w0)[2]
SecondOfDay(t) == unpack0(t.w0)[3]
PrecisionOf(t) == unpack0(t.w0)[1]

year(t) == unnormalized_year(Gnd(t))
month(t) == unnormalized_month(Gnd(t))
day(t) == unnormalized_day(Gnd(t))

hour(t) == Min(AsU8(SecondOfDay(t) \div SECONDS_PER_HOUR), HOURS_PER_DAY - 1)

minute(t) ==
    With(SecondOfDay(t), LAMBDA s :
        IF s < SECONDS_PER_DAY - SECONDS_PER_MINUTE
        THEN AsU8(AsU16(s % SECONDS_PER_HOUR) \div MINUTES_PER_HOUR)
        ELSE MINUTES_PER_HOUR - 1)

\* second(), had it not treated the last minute of the day apart.
second_of_any_minute(t) == AsU8(SecondOfDay(t) % SECONDS_PER_MINUTE)

second(t) ==
    With(SecondOfDay(t), LAMBDA s :
        IF s < SECONDS_PER_DAY - SECONDS_PER_MINUTE
        THEN AsU8(s % SECONDS_PER_MINUTE)
        ELSE AsU8(s - (SECONDS_PER_DAY - SECONDS_PER_MINUTE)))

MIN_GND == GND(-6, 3, 24, 3, 306)
MAX_GND == GND(19, 3, 24, 3, 305)

is_in_range(gnd) == ~GndLess(gnd, MIN_GND) /\ ~GndLess(MAX_GND, gnd)

-----------------------------------------------------------------------------
(* iso8601/date_time_builder.rs                                            *)

ErrInvalidDateTime == "InvalidDateTime"
ErrDateTimeOutOfBounds == "DateTimeOutOfBounds"

BuilderFields ==
    <<"year", "month", "day", "hour", "minute", "second",
      "millisecond", "microsecond", "nanosecond">>

\* The precision each setter raises the builder's precision to.
FieldPrecision(f) ==
    CASE f = "year" -> "Years"
      [] f = "month" -> "Months"
      [] f = "day" -> "Days"
      [] f = "hour" -> "Hours"
      [] f = "minute" -> "Minutes"
      [] f = "second" -> "Seconds"
      [] f = "millisecond" -> "Milliseconds"
      [] f = "microsecond" -> "Microseconds"
      [] f = "nanosecond" -> "Nanoseconds"

\* A builder is a record of the nine fields, each None or Some(number); its
\* precision is the opt_max over the setters called.
NoPrecision == "NoPrecision"
BuilderPrecision(b) ==
    With({encode_precision(FieldPrecision(BuilderFields[i])) :
            i \in {j \in 1..9 : b[BuilderFields[j]].tag = "Some"}},
         LAMBDA supplied :
        IF supplied = {} THEN NoPrecision
        ELSE decode_precision(CHOOSE p \in supplied : \A q \in supplied : q <= p))

\* The field of the builder the build reads: Some(value) when it was supplied,
\* Some(0) when the precision is coarser than the field, None when it is missing.
BuilderField(b, p, f) ==
    IF p >= encode_precision(FieldPrecision(f)) THEN b[f] ELSE Some(0)

\* minute_length, had it taken the day after the last for the last day of the
\* segment.
minute_length_day_after(gnd, h, mi) ==
    IF h # 23 \/ mi # 59 THEN 60
    ELSE
    With(to_day(gnd), LAMBDA fixed_day :
    With(by_day(fixed_day), LAMBDA lookup :
        IF lookup.kind = "In"
        THEN IF fixed_day - lookup.segment.start_day # lookup.segment.duration_days
             THEN 60
             ELSE AsU8(60 + lookup.segment.leap_seconds)
        ELSE 60))

\* The length of the minute (hour, minute) of the day gnd.
minute_length(gnd, h, mi) ==
    IF h # 23 \/ mi # 59 THEN 60
    ELSE
    With(to_day(gnd), LAMBDA fixed_day :
    With(by_day(fixed_day), LAMBDA lookup :
        IF lookup.kind = "In"
        THEN IF fixed_day - lookup.segment.start_day # lookup.segment.duration_days - 1
             THEN 60
             ELSE AsU8(60 + lookup.segment.leap_seconds)
        ELSE 60))

\* Result<DateTime, Error>: Ok(DateTime), Err(kind), or Panic.
checked_build(b, checks) ==
    With(BuilderPrecision(b), LAMBDA precision :
        IF precision = NoPrecision THEN Panic
        ELSE
    With([i \in 1..9 |-> BuilderField(b, encode_precision(precision), BuilderFields[i])],
         LAMBDA f :             \* year, month, .. nanosecond
        IF \E i \in 1..9 : f[i].tag = "None" THEN Panic
        ELSE IF f[1].v > 9999 THEN Err(ErrDateTimeOutOfBounds)
        ELSE
    With(from_date(f[1].v, f[2].v, f[3].v, checks), LAMBDA date :
        IF date.tag = "Panic" THEN Panic
        ELSE IF date.tag = "Err"
        THEN IF date.err = ErrInvalidDate THEN Err(ErrInvalidDateTime)
             ELSE Err(ErrDateTimeOutOfBounds)
        ELSE IF f[4].v >= 24 \/ f[5].v >= 60 THEN Err(ErrInvalidDateTime)
        ELSE IF \/ f[6].v >= minute_length(date.v, f[4].v, f[5].v)
                \/ f[7].v >= 1000 \/ f[8].v >= 1000 \/ f[9].v >= 1000
        THEN Err(ErrInvalidDateTime)
        ELSE Ok(DateTimeNew(precision, date.v,
                            f[4].v * 3600 + f[5].v * 60 + f[6].v,
                            f[7].v * 1000000 + f[8].v * 1000 + f[9].v)))))

-----------------------------------------------------------------------------
(* iso8601/date_time.rs: arithmetic.                                       *)

\* <<second, second carry>>
spill_eod_second_overflow(gnd, sec) ==
    With(to_day(gnd), LAMBDA days_from_epoch :
    With(by_day(days_from_epoch), LAMBDA lookup :
        IF lookup.kind = "In"
        THEN
        With(days_from_epoch - lookup.segment.start_day, LAMBDA day_offset :
        With(IF day_offset = lookup.segment.duration_days
             THEN lookup.segment.leap_seconds ELSE 0,
             LAMBDA leap_seconds :
        With(SECONDS_PER_DAY + leap_seconds, LAMBDA day_length_s :
            IF sec >= day_length_s
            THEN <<day_length_s, sec - day_length_s>>
            ELSE <<sec, 0>>)))
        ELSE <<sec, 0>>))

\* Option<DateTimeWithCarry>: Some([dt, days, seconds]), None, or Panic.
WithCarry(t, precision, gnd, sec, nanosecond, days_carry, seconds_carry) ==
    Some([dt |-> [w0 |-> pack0(precision, gnd, sec, nanosecond), w1 |-> t.w1],
          days |-> days_carry, seconds |-> seconds_carry])

checked_add_years(t, years, checks) ==
    With(unpack0(t.w0), LAMBDA u :
    With(add_years(u[2], years, checks), LAMBDA r :
        IF r.tag = "Panic" THEN Panic
        ELSE IF ~is_in_range(r.v.gnd) THEN None
        ELSE
        With(spill_eod_second_overflow(r.v.gnd, u[3]), LAMBDA sp :
            WithCarry(t, u[1], r.v.gnd, sp[1], u[4], IF r.v.carry THEN 1 ELSE 0, sp[2]))))

checked_add_months(t, months, checks) ==
    With(unpack0(t.w0), LAMBDA u :
    With(add_months(u[2], months, checks), LAMBDA r :
        IF r.tag = "Panic" THEN Panic
        ELSE IF ~is_in_range(r.v.gnd) THEN None
        ELSE
        With(spill_eod_second_overflow(r.v.gnd, u[3]), LAMBDA sp :
            WithCarry(t, u[1], r.v.gnd, sp[1], u[4], r.v.carry, sp[2]))))

checked_add_days(t, days, checks) ==
    With(unpack0(t.w0), LAMBDA u :
    With(add_days(u[2], days, checks), LAMBDA r :
        IF r.tag = "Panic" THEN Panic
        ELSE IF r.tag = "Err" THEN None
        ELSE IF ~is_in_range(r.v) THEN None
        ELSE
        With(spill_eod_second_overflow(r.v, u[3]), LAMBDA sp :
            WithCarry(t, u[1], r.v, sp[1], u[4], 0, sp[2]))))

\* minute_seconds, had it counted the carry from second 60 and not from 59.
minute_seconds_carry_from_60(gnd, min_of_day, second_of_minute) ==
    IF min_of_day < MINUTES_PER_DAY - 1
    THEN IF second_of_minute < SECONDS_PER_MINUTE
         THEN <<min_of_day * SECONDS_PER_MINUTE + second_of_minute, 0>>
         ELSE <<min_of_day * SECONDS_PER_MINUTE + (SECONDS_PER_MINUTE - 1),
                second_of_minute - SECONDS_PER_MINUTE>>
    ELSE spill_eod_second_overflow(
             gnd, min_of_day * SECONDS_PER_MINUTE + second_of_minute)

\* <<seconds_into_day, seconds_carry>> of checked_add_minutes
minute_seconds(gnd, min_of_day, second_of_minute) ==
    IF min_of_day < MINUTES_PER_DAY - 1
    THEN IF second_of_minute < SECONDS_PER_MINUTE
         THEN <<min_of_day * SECONDS_PER_MINUTE + second_of_minute, 0>>
         ELSE <<min_of_day * SECONDS_PER_MINUTE + (SECONDS_PER_MINUTE - 1),
                second_of_minute - (SECONDS_PER_MINUTE - 1)>>
    ELSE spill_eod_second_overflow(
             gnd, min_of_day * SECONDS_PER_MINUTE + second_of_minute)

\* minutes is an i64 (16-bit limbs)
checked_add_minutes(t, minutes, checks) ==
    With(unpack0(t.w0), LAMBDA u :
    With(ClampedDivRem(u[3], MINUTES_PER_HOUR, MINUTES_PER_DAY - 1),
         LAMBDA ms :            \* <<minute, second_of_minute>>
        IF checks /\ XAddOverflows(XInt(ms[1]), minutes) THEN Panic
        ELSE
    With(XDivModFloor(XAdd(XInt(ms[1]), minutes), MINUTES_PER_DAY),
         LAMBDA dm :            \* <<day_delta, minute>>, day_delta an i64
    With(add_days(u[2], XAsI32(dm[1]), checks), LAMBDA r :
        IF r.tag = "Panic" THEN Panic
        ELSE IF r.tag = "Err" THEN None
        ELSE IF ~is_in_range(r.v) THEN None
        ELSE
        With(minute_seconds(r.v, AsU16(dm[2]), AsU8(ms[2])), LAMBDA sc :
            WithCarry(t, u[1], r.v, sc[1], u[4], 0, sc[2]))))))

\* hours is an i32, hours as i64 * 60 an i64
checked_add_hours(t, hours, checks) ==
    checked_add_minutes(t, XMul(XInt(hours), MINUTES_PER_HOUR), checks)

\* 2^32, for a u32 subtraction that wraps
TwoTo32 == <<0, 49710, 23296>>

\* to_second_instant, had it counted the days to the first segment from the day
\* itself and not from the day after it.
to_second_instant_whole_day(gnd, sec, checks) ==
    With(to_day(gnd), LAMBDA d :
    With(by_day(d), LAMBDA lookup :
        IF lookup.kind = "AfterLast"
        THEN \* days_since_last_segment * 86400 + second, past the segment's end
             Some(WAdd(WInt(end_instant(lookup.segment)),
                       WDaysSeconds(d - end_day(lookup.segment), sec)))
        ELSE IF lookup.kind = "In"
        THEN \* days_into_segment * 86400 + second, past the segment's start
             Some(WAdd(WInt(lookup.segment.start_instant),
                       WDaysSeconds(d - lookup.segment.start_day, sec)))
        ELSE IF lookup.kind = "BeforeFirst"
        THEN IF sec > SECONDS_PER_DAY /\ checks THEN Panic
             ELSE
             With(IF sec <= SECONDS_PER_DAY
                  THEN WInt(SECONDS_PER_DAY - sec)
                  ELSE WAdd(TwoTo32, WInt(SECONDS_PER_DAY - sec)),
                  LAMBDA rest : \* (SECONDS_PER_DAY - second) as u64
             With(WAdd(WDaysSeconds(lookup.segment.start_day - d, 0), rest),
                  LAMBDA seconds_to_first_segment :
                 Some(WSub(WInt(lookup.segment.start_instant),
                           seconds_to_first_segment))))
        ELSE Panic))

\* InstantS64: Some(the i64 number of seconds since the epoch, as limbs), or Panic.
to_second_instant(gnd, sec, checks) ==
    With(to_day(gnd), LAMBDA d :
    With(by_day(d), LAMBDA lookup :
        IF lookup.kind = "AfterLast"
        THEN \* days_since_last_segment * 86400 + second, past the segment's end
             Some(WAdd(WInt(end_instant(lookup.segment)),
                       WDaysSeconds(d - end_day(lookup.segment), sec)))
        ELSE IF lookup.kind = "In"
        THEN \* days_into_segment * 86400 + second, past the segment's start
             Some(WAdd(WInt(lookup.segment.start_instant),
                       WDaysSeconds(d - lookup.segment.start_day, sec)))
        ELSE IF lookup.kind = "BeforeFirst"
        THEN IF sec > SECONDS_PER_DAY /\ checks THEN Panic
             ELSE
             With(IF sec <= SECONDS_PER_DAY
                  THEN WInt(SECONDS_PER_DAY - sec)
                  ELSE WAdd(TwoTo32, WInt(SECONDS_PER_DAY - sec)),
                  LAMBDA rest : \* (SECONDS_PER_DAY - second) as u64
             With(WAdd(WDaysSeconds(lookup.segment.start_day - (d + 1), 0), rest),
                  LAMBDA seconds_to_first_segment :
                 Some(WSub(WInt(lookup.segment.start_instant),
                           seconds_to_first_segment))))
        ELSE Panic))

\* Instant - Instant: checked_sub(..).expect(..); Some(limbs) or Panic.
InstantSub(a, b) ==
    With(WSub(a, b), LAMBDA d : IF InI64(d) THEN Some(d) ELSE Panic)

\* Instant::checked_add(Duration): Some(limbs) or None.
InstantCheckedAdd(a, b) ==
    With(WAdd(a, b), LAMBDA d : IF InI64(d) THEN Some(d) ELSE None)

\* from_second_instant past the last segment
from_second_instant_after_last(instant, last_segment) ==
    With(InstantSub(instant, WInt(end_instant(last_segment))), LAMBDA diff :
        IF diff.tag = "Panic" THEN Panic
        ELSE IF diff.v[1] > 0 THEN None
        ELSE
        With(end_day(last_segment) + diff.v[2], LAMBDA fixed_day :
            IF fixed_day > MAX_FIXED_DAY THEN None
            ELSE
            With(from_day(fixed_day), LAMBDA gnd :
                IF gnd.tag = "None" THEN Panic
                ELSE Some([gnd |-> gnd.v, second |-> diff.v[3]]))))

\* from_second_instant in a segment, had it no spill of the overshoot day into
\* the second: the leap second would be 00:00:00 of the next day.
from_second_instant_in_no_spill(instant, segment) ==
    With(InstantSub(instant, WInt(segment.start_instant)), LAMBDA diff :
        IF diff.tag = "Panic" THEN Panic
        ELSE
        With(from_day(segment.start_day + diff.v[2]), LAMBDA gnd :
            IF gnd.tag = "None" THEN Panic
            ELSE Some([gnd |-> gnd.v, second |-> diff.v[3]])))

\* from_second_instant in a segment
from_second_instant_in(instant, segment) ==
    With(InstantSub(instant, WInt(segment.start_instant)), LAMBDA diff :
        IF diff.tag = "Panic" THEN Panic
        ELSE
        With(segment.duration_days - 1, LAMBDA max_day :
        With(IF diff.v[2] > max_day
             THEN <<max_day, diff.v[3] + SECONDS_PER_DAY>>
             ELSE <<diff.v[2], diff.v[3]>>,
             LAMBDA ds :        \* <<days, second>>
            \* assert_eq!(overshoot_days, 1)
            IF diff.v[2] > max_day /\ diff.v[2] - max_day # 1 THEN Panic
            ELSE
            With(from_day(segment.start_day + ds[1]), LAMBDA gnd :
                IF gnd.tag = "None" THEN Panic
                ELSE Some([gnd |-> gnd.v, second |-> ds[2]])))))

\* from_second_instant before the first segment, had it divided without rounding
\* the days up: one second before the first segment would be 23:59:59 of the
\* segment's first day.
from_second_instant_before_first_no_round_up(instant, first_segment) ==
    With(InstantSub(WInt(first_segment.start_instant), instant), LAMBDA diff :
        IF diff.tag = "Panic" THEN Panic
        ELSE IF diff.v[1] > 0 THEN None
        ELSE
        With(first_segment.start_day - diff.v[2], LAMBDA fixed_day :
            IF fixed_day < MIN_FIXED_DAY THEN None
            ELSE
            With(from_day(fixed_day), LAMBDA gnd :
                IF gnd.tag = "None" THEN Panic
                ELSE Some([gnd |-> gnd.v,
                           second |-> IF diff.v[3] # 0 THEN SECONDS_PER_DAY - diff.v[3]
                                      ELSE 0]))))

\* from_second_instant before the first segment
from_second_instant_before_first(instant, first_segment) ==
    With(InstantSub(WInt(first_segment.start_instant), instant), LAMBDA diff :
        IF diff.tag = "Panic" THEN Panic
        ELSE IF diff.v[1] > 0 THEN None
        ELSE
        With(IF diff.v[3] # 0
             THEN <<diff.v[2] + 1, SECONDS_PER_DAY - diff.v[3]>>
             ELSE <<diff.v[2], diff.v[3]>>,
             LAMBDA ds :        \* <<days, second>>
        With(first_segment.start_day - ds[1], LAMBDA fixed_day :
            IF fixed_day < MIN_FIXED_DAY THEN None
            ELSE
            With(from_day(fixed_day), LAMBDA gnd :
                IF gnd.tag = "None" THEN Panic
                ELSE Some([gnd |-> gnd.v, second |-> ds[2]])))))

\* Option<(GregorianNormalizedDate, u32)>: Some([gnd, second]), None, or Panic.
from_second_instant(instant) ==
    With(by_instant(instant), LAMBDA lookup :
        IF lookup.kind = "AfterLast"
        THEN from_second_instant_after_last(instant, lookup.segment)
        ELSE IF lookup.kind = "In"
        THEN from_second_instant_in(instant, lookup.segment)
        ELSE IF lookup.kind = "BeforeFirst"
        THEN from_second_instant_before_first(instant, lookup.segment)
        ELSE Panic)

\* Option<DateTime>: Some(DateTime), None, or Panic.  seconds is an i64 (limbs).
checked_add_seconds(t, seconds, checks) ==
    With(unpack0(t.w0), LAMBDA u :
    With(to_second_instant(u[2], u[3], checks), LAMBDA instant0 :
        IF instant0.tag = "Panic" THEN Panic
        ELSE
    With(InstantCheckedAdd(instant0.v, seconds), LAMBDA instant1 :
        IF instant1.tag = "None" THEN None
        ELSE
    With(from_second_instant(instant1.v), LAMBDA r :
        IF r.tag = "Panic" THEN Panic
        ELSE IF r.tag = "None" THEN None
        ELSE Some([w0 |-> pack0(u[1], r.v.gnd, r.v.second, u[4]), w1 |-> t.w1])))))

\* DateTimeWithCarry::checked_apply_carry on (t, [days, seconds]):
\* Some(DateTime), None, or Panic (add_days is the panicking variant).
checked_apply_carry(t, c, checks) ==
    With(checked_add_days(t, c.days, checks), LAMBDA r :
        IF r.tag # "Some" THEN Panic
        ELSE IF r.v.days # 0 THEN Panic
        ELSE checked_add_seconds(r.v.dt, WInt(c.seconds + r.v.seconds), checks))

-----------------------------------------------------------------------------
(* The state machine: a builder that is filled in and built, and a        *)
(* DateTime that the add_* calls and the carry calls are made on.          *)

\* Bounds of the model.
MaxCalls == 3

\* The values the setters are called with.
YearValues == {2000, 2001, 10000}
MonthValues == {0, 2, 13}
DayValues == {0, 29, 32}
HourValues == {23, 24}
MinuteValues == {59, 60}
SecondValues == {59, 60}
SubsecondValues == {999, 1000}

\* The dates and times of day of the builders that are built whole.
DateYears == {0, 1969, 1970, 1972, 1997, 1998, 2000, 2001, 2016, 2017, 9999}
DateMonths == 1..12
DateDays == {1, 28, 29, 30, 31}
DateHours == {0, 12, 23}
DateMinutes == {0, 59}
DateSeconds == {0, 59, 60, 61}

NoDt == [tag |-> "NoDt"]
NoError == "NoError"
NoCarry == [days |-> 0, seconds |-> 0]
NoGnd == [tag |-> "NoGnd"]
NoLoader == [tag |-> "NoLoader"]
NoCursor == [tag |-> "NoCursor"]

\* DateTimeBuilder::new()
NewBuilder == [f \in {BuilderFields[i] : i \in 1..9} |-> None]

\* A builder with year .. second supplied.
BuilderOf(y, mo, d, h, mi, s) ==
    [NewBuilder EXCEPT !.year = Some(y), !.month = Some(mo), !.day = Some(d),
                       !.hour = Some(h), !.minute = Some(mi), !.second = Some(s)]

InitBuilder ==
    /\ overflow_checks \in BOOLEAN
    /\ builder = NewBuilder
    /\ pc = "builder"
    /\ dt = NoDt
    /\ carry = NoCarry
    /\ error = NoError
    /\ calls = <<>>
    /\ gdate = NoGnd
    /\ loader = NoLoader
    /\ cursor = NoCursor

\* A setter of the builder: the field is stored (the precision follows from the
\* fields supplied, see BuilderPrecision).
Set(f, v) ==
    /\ pc = "builder"
    /\ builder' = [builder EXCEPT ![f] = Some(v)]
    /\ UNCHANGED <<overflow_checks, pc, dt, carry, error, calls, gdate, loader, cursor>>

SetYear == \E v \in YearValues : Set("year", v)
SetMonth == \E v \in MonthValues : Set("month", v)
SetDay == \E v \in DayValues : Set("day", v)
SetHour == \E v \in HourValues : Set("hour", v)
SetMinute == \E v \in MinuteValues : Set("minute", v)
SetSecond == \E v \in SecondValues : Set("second", v)
SetMillisecond == \E v \in SubsecondValues : Set("millisecond", v)
SetMicrosecond == \E v \in SubsecondValues : Set("microsecond", v)
SetNanosecond == \E v \in SubsecondValues : Set("nanosecond", v)

\* DateTimeBuilder::checked_build
Build ==
    /\ pc = "builder"
    /\ \E r \in {checked_build(builder, overflow_checks)} :
           /\ pc' = (IF r.tag = "Ok" THEN "value"
                     ELSE IF r.tag = "Err" THEN "error" ELSE "panic")
           /\ dt' = (IF r.tag = "Ok" THEN r.v ELSE NoDt)
           /\ error' = (IF r.tag = "Err" THEN r.err ELSE NoError)
    /\ UNCHANGED <<overflow_checks, builder, carry, calls, gdate, loader, cursor>>

NextBuilder ==
    \/ SetYear \/ SetMonth \/ SetDay \/ SetHour \/ SetMinute \/ SetSecond
    \/ SetMillisecond \/ SetMicrosecond \/ SetNanosecond
    \/ Build

SpecBuilder == InitBuilder /\ [][NextBuilder]_vars

\* A builder on which year(..) .. second(..) have been called, about to be built.
InitDates ==
    /\ overflow_checks \in BOOLEAN
    /\ \E y \in DateYears, mo \in DateMonths, d \in DateDays,
          h \in DateHours, mi \in DateMinutes, s \in DateSeconds :
            builder = BuilderOf(y, mo, d, h, mi, s)
    /\ pc = "builder"
    /\ dt = NoDt
    /\ carry = NoCarry
    /\ error = NoError
    /\ calls = <<>>
    /\ gdate = NoGnd
    /\ loader = NoLoader
    /\ cursor = NoCursor

NextDates == Build

SpecDates == InitDates /\ [][NextDates]_vars

-----------------------------------------------------------------------------
(* Calls on DateTime values.                                               *)

\* The result of a call: the new pc, DateTime and carry.  A call that returns
\* None or panics leaves the caller with the DateTime it had.
Call(op, arg) ==
    /\ calls' = Append(calls, [op |-> op, arg |-> arg, from |-> dt])
    /\ UNCHANGED <<overflow_checks, builder, error, gdate, loader, cursor>>

\* A call that returns Option<DateTimeWithCarry>
WithCarryResult(r) ==
    /\ pc' = (IF r.tag = "Some" THEN "carry" ELSE IF r.tag = "None" THEN "none" ELSE "panic")
    /\ dt' = (IF r.tag = "Some" THEN r.v.dt ELSE dt)
    /\ carry' = (IF r.tag = "Some" THEN [days |-> r.v.days, seconds |-> r.v.seconds]
                 ELSE NoCarry)

\* A call that returns Option<DateTime>
DateTimeResult(r) ==
    /\ pc' = (IF r.tag = "Some" THEN "value" ELSE IF r.tag = "None" THEN "none" ELSE "panic")
    /\ dt' = (IF r.tag = "Some" THEN r.v ELSE dt)
    /\ carry' = NoCarry

CanCall == pc = "value" /\ Len(calls) < MaxCalls

AddYears(years) ==
    /\ CanCall
    /\ \E r \in {checked_add_years(dt, years, overflow_checks)} :
           WithCarryResult(r) /\ Call("add_years", years)

AddMonths(months) ==
    /\ CanCall
    /\ \E r \in {checked_add_months(dt, months, overflow_checks)} :
           WithCarryResult(r) /\ Call("add_months", months)

AddDays(days) ==
    /\ CanCall
    /\ \E r \in {checked_add_days(dt, days, overflow_checks)} :
           WithCarryResult(r) /\ Call("add_days", days)

AddHours(hours) ==
    /\ CanCall
    /\ \E r \in {checked_add_hours(dt, hours, overflow_checks)} :
           WithCarryResult(r) /\ Call("add_hours", hours)

AddMinutes(minutes) ==
    /\ CanCall
    /\ \E r \in {checked_add_minutes(dt, minutes, overflow_checks)} :
           WithCarryResult(r) /\ Call("add_minutes", minutes)

\* seconds is an i64 (limbs)
AddSeconds(seconds) ==
    /\ CanCall
    /\ \E r \in {checked_add_seconds(dt, seconds, overflow_checks)} :
           DateTimeResult(r) /\ Call("add_seconds", seconds)

\* DateTimeWithCarry::drop_carry
DropCarry ==
    /\ pc = "carry"
    /\ pc' = "value"
    /\ carry' = NoCarry
    /\ calls' = Append(calls, [op |-> "drop_carry", arg |-> carry, from |-> dt])
    /\ UNCHANGED <<overflow_checks, builder, dt, error, gdate, loader, cursor>>

\* DateTimeWithCarry::unwrap
Unwrap ==
    /\ pc = "carry"
    /\ pc' = (IF carry = NoCarry THEN "value" ELSE "panic")
    /\ carry' = NoCarry
    /\ calls' = Append(calls, [op |-> "unwrap", arg |-> carry, from |-> dt])
    /\ UNCHANGED <<overflow_checks, builder, dt, error, gdate, loader, cursor>>

\* DateTimeWithCarry::checked_apply_carry
ApplyCarry ==
    /\ pc = "carry"
    /\ \E r \in {checked_apply_carry(dt, carry, overflow_checks)} :
           DateTimeResult(r) /\ Call("apply_carry", carry)

\* The DateTime values the calls start from, as <<year, month, day, hour, minute, second>>.
Starts ==
    {<<1998, 12, 31, 23, 59, 60>>, <<2016, 12, 31, 23, 59, 60>>,
     <<2000, 2, 29, 12, 0, 0>>, <<2000, 1, 31, 0, 0, 0>>,
     <<1970, 1, 1, 0, 0, 0>>, <<0, 1, 1, 0, 0, 0>>, <<9999, 12, 31, 23, 59, 59>>}

YearDeltas == {-1, 1, 4}
MonthDeltas == {-1, 1}
DayDeltas == {-1, 1}
HourDeltas == {1}
MinuteDeltas == {XInt(-1), XInt(1)}
SecondDeltas == {WInt(-1), WInt(1)}

\* A DateTime built by a builder with year .. second supplied.
Built(start) ==
    /\ overflow_checks \in BOOLEAN
    /\ builder = BuilderOf(start[1], start[2], start[3], start[4], start[5], start[6])
    /\ \E r \in {checked_build(builder, overflow_checks)} :
           r.tag = "Ok" /\ dt = r.v
    /\ pc = "value"
    /\ carry = NoCarry
    /\ error = NoError
    /\ calls = <<>>
    /\ gdate = NoGnd
    /\ loader = NoLoader
    /\ cursor = NoCursor

Init == \E start \in Starts : Built(start)

Next ==
    \/ \E years \in YearDeltas : AddYears(years)
    \/ \E months \in MonthDeltas : AddMonths(months)
    \/ \E days \in DayDeltas : AddDays(days)
    \/ \E hours \in HourDeltas : AddHours(hours)
    \/ \E minutes \in MinuteDeltas : AddMinutes(minutes)
    \/ \E seconds \in SecondDeltas : AddSeconds(seconds)
    \/ DropCarry
    \/ ApplyCarry

Spec == Init /\ [][Next]_vars

\* Seconds added one at a time around every 30 June / 1 July and
\* 31 December / 1 January from 1969 to 2017 and at the two ends of the range.
TickYears == (1969..2017) \cup {0, 9999}
TickStarts ==
    {<<y, md[1], md[2], hms[1], hms[2], hms[3]>> :
        y \in TickYears,
        md \in {<<6, 30>>, <<7, 1>>, <<12, 31>>, <<1, 1>>},
        hms \in {<<23, 59, 59>>, <<0, 0, 0>>}}
TickDeltas == {WInt(-1), WInt(1)}

InitTicks == \E start \in TickStarts : Built(start)

NextTicks == \E seconds \in TickDeltas : AddSeconds(seconds)

SpecTicks == InitTicks /\ [][NextTicks]_vars

\* Seconds added in steps of every size, from the segment boundaries and the
\* two ends of the range.
SecondStarts ==
    {<<0, 1, 1, 0, 0, 0>>, <<1969, 12, 31, 23, 59, 59>>, <<1970, 1, 1, 0, 0, 0>>,
     <<1972, 6, 30, 23, 59, 59>>, <<2016, 12, 31, 23, 59, 60>>,
     <<2017, 1, 1, 0, 0, 0>>, <<9999, 12, 31, 23, 59, 59>>}
\* the number of seconds from 0000-01-01 00:00:00 to 9999-12-31 23:59:59
RangeSeconds == WAdd(WDaysSeconds(MAX_FIXED_DAY - MIN_FIXED_DAY, 86399), WInt(Len(LeapTable)))
SecondSteps ==
    {WInt(0), WInt(-1), WInt(1), WInt(-86401), WInt(86401), RangeSeconds, I64_MIN, I64_MAX}

InitSeconds == \E start \in SecondStarts : Built(start)

NextSeconds == \E seconds \in SecondSteps : AddSeconds(seconds)

SpecSeconds == InitSeconds /\ [][NextSeconds]_vars

-----------------------------------------------------------------------------
(* What the properties below are stated with.                              *)

\* The number of leap seconds at the end of fixed day d: those of the segment
\* whose last day d is.
LeapSecondsOn(d) ==
    IF \E i \in 1..Len(Segments) : end_day(Segments[i]) - 1 = d
    THEN Segments[CHOOSE i \in 1..Len(Segments) : end_day(Segments[i]) - 1 = d].leap_seconds
    ELSE 0

DayLength(d) == SECONDS_PER_DAY + LeapSecondsOn(d)

FixedDay(t) == to_day(Gnd(t))

\* t is a DateTime a builder can build: a date of the range and a second of its day.
ValidDateTime(t) ==
    /\ Gnd(t).day < year_length(Gnd(t))
    /\ MIN_FIXED_DAY <= FixedDay(t) /\ FixedDay(t) <= MAX_FIXED_DAY
    /\ SecondOfDay(t) < DayLength(FixedDay(t))

\* t is second s of fixed day d
OnDay(t, d, s) == FixedDay(t) = d /\ SecondOfDay(t) = s

\* Call k returned a DateTime (with or without a carry), and the one it returned.
ReturnedOk(k) == k < Len(calls) \/ pc \in {"value", "carry"}
Returned(k) == IF k < Len(calls) THEN calls[k + 1].from ELSE dt
ReturnedCarry(k) == IF k < Len(calls) THEN calls[k + 1].arg ELSE carry

IsAddSeconds(k, delta) == calls[k].op = "add_seconds" /\ calls[k].arg = WInt(delta)

-----------------------------------------------------------------------------
(* Properties.                                                             *)

\* C1: for every segment with leap_seconds = 1, the last included: one second
\* added to 23:59:59 on day end_day - 1 gives 23:59:60 (second_of_day 86400) on
\* that day, one more gives 00:00:00 on end_day, and one second subtracted
\* twice from there gives the same two DateTimes again.
C1_LeapSecondWalk ==
    \A i \in 1..Len(Segments) : \A k \in 1..Len(calls) :
        LET e == end_day(Segments[i])
            t == calls[k].from
            r == Returned(k)
        IN  Segments[i].leap_seconds = 1 =>
            /\ IsAddSeconds(k, 1) /\ OnDay(t, e - 1, 86399) =>
                /\ ReturnedOk(k) /\ OnDay(r, e - 1, 86400)
                /\ hour(r) = 23 /\ minute(r) = 59 /\ second(r) = 60
            /\ IsAddSeconds(k, 1) /\ OnDay(t, e - 1, 86400) =>
                ReturnedOk(k) /\ OnDay(r, e, 0)
            /\ IsAddSeconds(k, -1) /\ OnDay(t, e, 0) =>
                /\ ReturnedOk(k) /\ OnDay(r, e - 1, 86400)
                /\ hour(r) = 23 /\ minute(r) = 59 /\ second(r) = 60
            /\ IsAddSeconds(k, -1) /\ OnDay(t, e - 1, 86400) =>
                ReturnedOk(k) /\ OnDay(r, e - 1, 86399)

\* The walk of C1 through the leap second of the last segment: 23:59:59, two
\* seconds forward to 00:00:00 of 2017-01-01 and one back to 23:59:60.
C1_Witness ==
    /\ Len(calls) = 3 /\ pc = "value"
    /\ OnDay(calls[1].from, end_day(Segments[Len(Segments)]) - 1, 86399)
    /\ IsAddSeconds(1, 1) /\ IsAddSeconds(2, 1) /\ IsAddSeconds(3, -1)
    /\ OnDay(calls[3].from, end_day(Segments[Len(Segments)]), 0)
    /\ OnDay(dt, end_day(Segments[Len(Segments)]) - 1, 86400)

\* C2: for every DateTime of the range on a valid second of its day (0..86399,
\* and 86400 on the last day of a segment with a leap second),
\* from_second_instant gives back the day and second to_second_instant was
\* given, and the next valid second has the instant one greater.
C2_InstantRoundTrip ==
    pc = "value" /\ ValidDateTime(dt) =>
        LET g == Gnd(dt)
            s == SecondOfDay(dt)
            d == FixedDay(dt)
            i == to_second_instant(g, s, overflow_checks)
            next == IF s + 1 < DayLength(d) THEN <<d, s + 1>> ELSE <<d + 1, 0>>
        IN  /\ i.tag = "Some"
            /\ from_second_instant(i.v) = Some([gnd |-> g, second |-> s])
            /\ next[1] <= MAX_FIXED_DAY =>
                   to_second_instant(from_day(next[1]).v, next[2], overflow_checks)
                       = Some(WAdd(i.v, WInt(1)))

\* The leap second of the first segment, reached by add_seconds.
C2_Witness ==
    /\ pc = "value" /\ Len(calls) = 1 /\ ValidDateTime(dt)
    /\ OnDay(dt, end_day(Segments[1]) - 1, 86400)

\* C3: add_seconds is additive.  For a builder-valid t, when add_seconds(t, d1),
\* add_seconds of d2 to that and add_seconds(t, d1 + d2) all return a DateTime,
\* the last two are the same DateTime; add_seconds(t, 0) is t, and d1 and then
\* -d1 give t again.
C3_AddSecondsAdditive ==
    \A k \in 1..Len(calls) :
        calls[k].op = "add_seconds" /\ ValidDateTime(calls[k].from) /\ ReturnedOk(k) =>
            LET t == calls[k].from
            IN  /\ calls[k].arg = WInt(0) => Returned(k) = t
                /\ k < Len(calls) /\ calls[k + 1].op = "add_seconds" /\ ReturnedOk(k + 1) =>
                       LET sum == WAdd(calls[k].arg, calls[k + 1].arg)
                           direct == checked_add_seconds(t, sum, overflow_checks)
                       IN  /\ InI64(sum) /\ direct.tag = "Some" => direct.v = Returned(k + 1)
                           /\ sum = WInt(0) => Returned(k + 1) = t

\* One second from the last leap second into 2017, past the last segment, and
\* 86401 seconds back to 00:00:00 of the leap second's day.
C3_Witness ==
    /\ Len(calls) = 2 /\ pc = "value"
    /\ ValidDateTime(calls[1].from)
    /\ OnDay(calls[1].from, end_day(Segments[Len(Segments)]) - 1, 86400)
    /\ IsAddSeconds(1, 1) /\ IsAddSeconds(2, -86401)
    /\ OnDay(dt, end_day(Segments[Len(Segments)]) - 1, 0)

\* How call k ended: "value" or "carry" when it returned a DateTime, "none",
\* "panic".
Outcome(k) == IF k < Len(calls) THEN "value" ELSE pc

\* The instants of 0000-01-01 00:00:00 and 9999-12-31 23:59:59.
MinInstant == to_second_instant(MIN_GND, 0, overflow_checks).v
MaxInstant == to_second_instant(MAX_GND, SECONDS_PER_DAY - 1, overflow_checks).v

\* The exact sum of the instant of t and delta is no i64, or no instant of the
\* range.
OutOfRange(t, delta) ==
    LET exact == WAdd(to_second_instant(Gnd(t), SecondOfDay(t), overflow_checks).v, delta)
    IN  ~InI64(exact) \/ WLess(exact, MinInstant) \/ WLess(MaxInstant, exact)

\* C4: for every DateTime t of the range and every i64 delta,
\* checked_add_seconds(delta) returns None without a panic when the exact result
\* is before 0000-01-01 00:00:00, after 9999-12-31 23:59:59 or no i64 (delta =
\* i64::MIN and i64::MAX included), and Some of a DateTime with a year in
\* 0..=9999 otherwise.
C4_CheckedAddSecondsTotal ==
    \A k \in 1..Len(calls) :
        calls[k].op = "add_seconds" /\ ValidDateTime(calls[k].from) =>
            IF OutOfRange(calls[k].from, calls[k].arg)
            THEN Outcome(k) = "none"
            ELSE /\ Outcome(k) = "value"
                 /\ year(Returned(k)) \in MIN_YEAR..MAX_YEAR

\* C5: every DateTime reached from a built one by add_years, add_months,
\* add_days, add_hours, add_minutes and add_seconds, each carry dropped or
\* applied, has second_of_day >= 86400 (second() = 60) only on the last day of
\* a segment with leap_seconds > 0; on every other day second_of_day is at most
\* 86399.
C5_LeapSecondOnlyOnLeapDay ==
    pc = "value" =>
        \/ SecondOfDay(dt) <= SECONDS_PER_DAY - 1 /\ second(dt) <= 59
        \/ LeapSecondsOn(FixedDay(dt)) > 0

\* The number of days of month m of year y in the Gregorian calendar.
DaysInMonth(y, m) ==
    CASE m \in {4, 6, 9, 11} -> 30
      [] m = 2 -> IF y % 4 = 0 /\ (y % 100 # 0 \/ y % 400 = 0) THEN 29 ELSE 28
      [] OTHER -> 31

\* The fields a builder was given.
Given(f) == builder[f].v

\* The builder was given year .. second and no more, and all but the second
\* are valid: a date of the calendar in 0000..9999, hour < 24, minute < 60.
GivenDateAndTime ==
    /\ \A i \in 1..6 : builder[BuilderFields[i]].tag = "Some"
    /\ \A i \in 7..9 : builder[BuilderFields[i]].tag = "None"
    /\ Given("year") <= MAX_YEAR
    /\ Given("month") \in 1..12
    /\ Given("day") \in 1..DaysInMonth(Given("year"), Given("month"))
    /\ Given("hour") < HOURS_PER_DAY /\ Given("minute") < MINUTES_PER_HOUR

\* The fixed day of the date the builder was given.
GivenDay == to_day(from_date(Given("year"), Given("month"), Given("day"), overflow_checks).v)

\* C6: checked_build accepts second s at 23:59 iff s <= 59 + L, L the
\* leap_seconds of the segment the day is the last day of, 0 when it is the
\* last day of none (also before the first and after the last segment); at
\* every other time of day iff s <= 59.  A second that is not accepted gives
\* Err(InvalidDateTime).
C6_SecondAccepted ==
    pc # "builder" /\ GivenDateAndTime =>
        LET L == IF Given("hour") = 23 /\ Given("minute") = 59
                 THEN LeapSecondsOn(GivenDay) ELSE 0
        IN  IF Given("second") <= 59 + L
            THEN pc = "value"
            ELSE pc = "error" /\ error = ErrInvalidDateTime

\* 23:59:60 on 2016-12-31, the last day of the last segment, was accepted.
C6_Witness ==
    /\ pc = "value" /\ GivenDateAndTime
    /\ GivenDay = end_day(Segments[Len(Segments)]) - 1
    /\ Given("hour") = 23 /\ Given("minute") = 59 /\ Given("second") = 60

\* Field i of the builder was supplied.
Supplied(i) == builder[BuilderFields[i]].tag = "Some"

\* The finest field supplied, and whether every field from the year to it was.
Finest == CHOOSE i \in 1..9 : Supplied(i) /\ \A j \in (i + 1)..9 : ~Supplied(j)
SuppliedDownTo(i) == \A j \in 1..i : Supplied(j)

\* The supplied month, day, hour, minute or sub-second field is not a valid one.
InvalidField ==
    \/ Supplied(2) /\ Given("month") \notin 1..12
    \/ /\ Supplied(2) /\ Supplied(3) /\ Given("month") \in 1..12
       /\ Given("day") \notin 1..DaysInMonth(Given("year"), Given("month"))
    \/ Supplied(4) /\ Given("hour") >= HOURS_PER_DAY
    \/ Supplied(5) /\ Given("minute") >= MINUTES_PER_HOUR
    \/ \E i \in 7..9 : Supplied(i) /\ builder[BuilderFields[i]].v >= 1000

\* The supplied second is one of its minute (see C6).
ValidSecond ==
    Supplied(6) =>
        Given("second") <= 59 + (IF Given("hour") = 23 /\ Given("minute") = 59
                                 THEN LeapSecondsOn(GivenDay) ELSE 0)

\* C7: with year .. second supplied (and every sub-second field down to the
\* finest one), checked_build returns Err(DateTimeOutOfBounds) when year > 9999;
\* otherwise Err(InvalidDateTime), and no panic, for a month outside 1..=12, a
\* day outside 1..=days_in_month (day 0 and Feb 29 of a non-leap year
\* included), hour >= 24, minute >= 60, millisecond, microsecond or nanosecond
\* >= 1000; and Ok for every other input with a valid second.
C7_BuildErrors ==
    pc # "builder" /\ SuppliedDownTo(6) /\ SuppliedDownTo(Finest) =>
        IF Given("year") > MAX_YEAR
        THEN pc = "error" /\ error = ErrDateTimeOutOfBounds
        ELSE IF InvalidField
        THEN pc = "error" /\ error = ErrInvalidDateTime
        ELSE ValidSecond => pc = "value"

\* C8: the precision built is that of the finest field supplied, and
\* checked_build succeeds when every field from the year down to it is supplied
\* and valid, the fields finer than it taken as zero: a builder with only a
\* year, or a year and a month, builds Ok with precision Years, Months.  A
\* missing year, or a missing field coarser than the finest supplied, panics.
C8_PrecisionBuilt ==
    pc # "builder" =>
        IF \A i \in 1..9 : ~Supplied(i) THEN pc = "panic"
        ELSE IF ~SuppliedDownTo(Finest) THEN pc = "panic"
        ELSE Given("year") <= MAX_YEAR /\ ~InvalidField /\ ValidSecond =>
                 /\ pc = "value"
                 /\ PrecisionOf(dt) = FieldPrecision(BuilderFields[Finest])

\* C9: the accessors of a DateTime built from (year, month, day, hour, minute,
\* second) return the values supplied, for every date of 0000-01-01 ..
\* 9999-12-31 and every time of day, second 60 at 23:59 of a day with a leap
\* second included.
C9_AccessorsReturnSupplied ==
    pc = "value" /\ SuppliedDownTo(6) =>
        /\ year(dt) = Given("year") /\ month(dt) = Given("month") /\ day(dt) = Given("day")
        /\ hour(dt) = Given("hour") /\ minute(dt) = Given("minute")
        /\ second(dt) = Given("second")

\* 1972-06-30 23:59:60, the leap second of the first segment, was built.
C9_Witness ==
    /\ pc = "value"
    /\ builder = BuilderOf(1972, 6, 30, 23, 59, 60)
    /\ second(dt) = 60

\* y is a leap year of the Gregorian calendar.
IsLeap(y) == y % 4 = 0 /\ (y % 100 # 0 \/ y % 400 = 0)

\* t is day d of month m of year y.
OnDate(t, y, m, d) == year(t) = y /\ month(t) = m /\ day(t) = d

\* C10: for a DateTime t of the range and years with a result in the range:
\* from Feb 29 to a year that is no leap year, add_years returns Feb 28 of
\* year(t) + years with a days carry of 1, and apply_carry gives Mar 1 of that
\* year; in every other case the same month and day of year(t) + years with a
\* days carry of 0.  Hour, minute and second stay when t is not on a leap
\* second.
C10_AddYears ==
    \A k \in 1..Len(calls) :
        calls[k].op = "add_years" /\ ValidDateTime(calls[k].from) /\ ReturnedOk(k) =>
            LET t == calls[k].from
                y == year(t) + calls[k].arg
                r == Returned(k)
            IN  /\ IF month(t) = 2 /\ day(t) = 29 /\ ~IsLeap(y)
                   THEN /\ OnDate(r, y, 2, 28)
                        /\ ReturnedCarry(k).days = 1
                        /\ k < Len(calls) /\ calls[k + 1].op = "apply_carry" =>
                               ReturnedOk(k + 1) /\ OnDate(Returned(k + 1), y, 3, 1)
                   ELSE /\ OnDate(r, y, month(t), day(t))
                        /\ ReturnedCarry(k).days = 0
                /\ SecondOfDay(t) < SECONDS_PER_DAY =>
                       hour(r) = hour(t) /\ minute(r) = minute(t) /\ second(r) = second(t)

\* One year added to 2000-02-29 12:00:00 and the carry applied: 2001-03-01.
C10_Witness ==
    /\ Len(calls) = 2 /\ pc = "value"
    /\ calls[1].op = "add_years" /\ calls[1].arg = 1
    /\ OnDate(calls[1].from, 2000, 2, 29)
    /\ calls[2].op = "apply_carry" /\ calls[2].arg.days = 1
    /\ OnDate(calls[2].from, 2001, 2, 28)
    /\ OnDate(dt, 2001, 3, 1) /\ hour(dt) = 12

-----------------------------------------------------------------------------
(* Months added to dates at noon.                                          *)

MonthStarts ==
    {<<y, mo, d, 12, 0, 0>> :
        y \in {0, 1999, 2000, 2001, 9999}, mo \in 1..12, d \in {1, 28, 29, 30, 31}}
MonthSteps == {-13, -1, 1, 12}

InitMonths == \E start \in MonthStarts : Built(start)

NextMonths ==
    \/ \E months \in MonthSteps : AddMonths(months)
    \/ DropCarry
    \/ ApplyCarry

SpecMonths == InitMonths /\ [][NextMonths]_vars

\* The fixed day of day d of month m of year y.
FixedDayOf(y, m, d) == to_day(from_date(y, m, d, FALSE).v)

\* C11: for a valid date (Y, M, D) and months with a result in the range,
\* add_months lands in the month numbered 12*Y + (M - 1) + months on day
\* min(D, L), L the length of that month, with a days carry of D - min(D, L);
\* applying the carry gives the first day of that month plus D - 1 days.
C11_AddMonths ==
    \A k \in 1..Len(calls) :
        calls[k].op = "add_months" /\ ValidDateTime(calls[k].from) /\ ReturnedOk(k) =>
            LET t == calls[k].from
                index == 12 * year(t) + (month(t) - 1) + calls[k].arg
                ty == index \div 12
                tm == (index % 12) + 1
                clamped == Min(day(t), DaysInMonth(ty, tm))
            IN  /\ OnDate(Returned(k), ty, tm, clamped)
                /\ ReturnedCarry(k).days = day(t) - clamped
                /\ k < Len(calls) /\ calls[k + 1].op = "apply_carry" =>
                       /\ ReturnedOk(k + 1)
                       /\ FixedDay(Returned(k + 1)) = FixedDayOf(ty, tm, 1) + day(t) - 1

\* One month added to 2001-01-31: 2001-02-28 with a days carry of 3, applied:
\* 2001-03-03.
C11_Witness ==
    /\ Len(calls) = 2 /\ pc = "value"
    /\ calls[1].op = "add_months" /\ calls[1].arg = 1
    /\ OnDate(calls[1].from, 2001, 1, 31)
    /\ calls[2].op = "apply_carry" /\ calls[2].arg.days = 3
    /\ OnDate(calls[2].from, 2001, 2, 28)
    /\ OnDate(dt, 2001, 3, 3)

-----------------------------------------------------------------------------
(* Minutes and hours added, by small and by very large amounts.            *)

MinuteStarts ==
    {<<1998, 12, 31, 23, 59, 60>>, <<1998, 12, 31, 23, 59, 59>>,
     <<1972, 6, 30, 23, 59, 60>>, <<2000, 2, 29, 12, 0, 30>>,
     <<0, 1, 1, 0, 0, 0>>, <<9999, 12, 31, 23, 59, 59>>}
\* -1441, -1, 1, 1440; 1440 * 2^31 and 1440 * 2^32; i64::MIN and i64::MAX
MinuteSteps ==
    {XInt(-1441), XInt(-1), XInt(1), XInt(1440),
     <<0, 720, 0, 0>>, <<0, 1440, 0, 0>>, X64_MIN, X64_MAX}
HourSteps == {-1, 1, 24, I32_MIN, I32_MAX}

InitMinutes == \E start \in MinuteStarts : Built(start)

NextMinutes ==
    \/ \E minutes \in MinuteSteps : AddMinutes(minutes)
    \/ \E hours \in HourSteps : AddHours(hours)
    \/ DropCarry
    \/ ApplyCarry

SpecMinutes == InitMinutes /\ [][NextMinutes]_vars

\* The minute of the day and the second of the minute of t.
MinuteOfDay(t) == Min(SecondOfDay(t) \div 60, 1439)
SecondOfMinute(t) == SecondOfDay(t) - 60 * MinuteOfDay(t)

\* The minutes call k adds, as an i64, and as a number when they are few.
MinutesOf(k) ==
    IF calls[k].op = "add_hours" THEN XMul(XInt(calls[k].arg), 60) ELSE calls[k].arg
FewMinutes(k) ==
    XFitsI32(MinutesOf(k)) /\ XAsI32(MinutesOf(k)) \in -100000000..100000000

\* C12: for a DateTime of the range with minute of day m and second of minute
\* r, and a delta with a result in the range, checked_add_minutes gives the
\* day shifted by floor((m + delta) / 1440) and the minute (m + delta) mod 1440,
\* with a days carry of 0; for r < 60 the second is r and the seconds carry 0;
\* from a leap second (r >= 60) to a minute that is not the last of its day the
\* second is 59 and the seconds carry r - 59, and apply_carry gives second 0 of
\* the next minute.
C12_AddMinutes ==
    \A k \in 1..Len(calls) :
        /\ calls[k].op = "add_minutes" /\ FewMinutes(k)
        /\ ValidDateTime(calls[k].from) /\ ReturnedOk(k)
        =>
            LET t == calls[k].from
                total == MinuteOfDay(t) + XAsI32(calls[k].arg)
                target == total % 1440
                r == SecondOfMinute(t)
                res == Returned(k)
                c == ReturnedCarry(k)
            IN  /\ FixedDay(res) = FixedDay(t) + (total \div 1440)
                /\ MinuteOfDay(res) = target
                /\ hour(res) = target \div 60 /\ minute(res) = target % 60
                /\ c.days = 0
                /\ r < 60 => SecondOfMinute(res) = r /\ c.seconds = 0
                /\ r >= 60 /\ target # 1439 =>
                       /\ SecondOfMinute(res) = 59 /\ c.seconds = r - 59
                       /\ k < Len(calls) /\ calls[k + 1].op = "apply_carry" =>
                              /\ ReturnedOk(k + 1)
                              /\ OnDay(Returned(k + 1), FixedDay(res), (target + 1) * 60)

\* 1998-12-31 23:59:60 + 1 minute = 1999-01-01 00:00:59 with a seconds carry
\* of 1, applied: 00:01:00.
C12_Witness ==
    /\ Len(calls) = 2 /\ pc = "value"
    /\ calls[1].op = "add_minutes" /\ calls[1].arg = XInt(1)
    /\ OnDate(calls[1].from, 1998, 12, 31) /\ SecondOfDay(calls[1].from) = 86400
    /\ calls[2].op = "apply_carry" /\ calls[2].arg = [days |-> 0, seconds |-> 1]
    /\ OnDate(calls[2].from, 1999, 1, 1) /\ SecondOfDay(calls[2].from) = 59
    /\ OnDate(dt, 1999, 1, 1) /\ SecondOfDay(dt) = 60

-----------------------------------------------------------------------------
(* Years added over the whole range of an i16.                             *)

YearStarts ==
    {<<2000, 3, 1, 12, 0, 0>>, <<2000, 2, 29, 12, 0, 0>>, <<1970, 1, 1, 0, 0, 0>>,
     <<0, 1, 1, 0, 0, 0>>, <<9999, 12, 31, 23, 59, 59>>}
YearSteps == {-32768, -30000, -10000, -9999, -1, 1, 9999, 10000, 25600, 30000, 32767}

InitYears == \E start \in YearStarts : Built(start)

NextYears ==
    \/ \E years \in YearSteps : AddYears(years)
    \/ DropCarry
    \/ ApplyCarry

SpecYears == InitYears /\ [][NextYears]_vars

\* C13: for a DateTime t of the range and every i16 years, checked_add_years
\* returns None when year(t) + years is outside 0..=9999 and a DateTime of the
\* year year(t) + years otherwise; it never panics and never returns a date
\* of another year.
C13_AddYearsWholeRange ==
    \A k \in 1..Len(calls) :
        calls[k].op = "add_years" /\ ValidDateTime(calls[k].from) =>
            LET target == year(calls[k].from) + calls[k].arg
            IN  IF target \in MIN_YEAR..MAX_YEAR
                THEN ReturnedOk(k) /\ year(Returned(k)) = target
                ELSE Outcome(k) = "none"

-----------------------------------------------------------------------------
(* Months added over the whole range of an i32.                            *)

\* -10000 and 10000 years, 65536 years, i32::MIN and i32::MAX
WideMonthSteps == {-1, 1, -120000, 120000, -786432, 786432, I32_MIN, I32_MAX}

NextWideMonths ==
    \/ \E months \in WideMonthSteps : AddMonths(months)
    \/ DropCarry
    \/ ApplyCarry

SpecWideMonths == InitYears /\ [][NextWideMonths]_vars

\* C14: for a DateTime t of the range and every i32 months, checked_add_months
\* returns None when the month numbered 12 * year(t) + (month(t) - 1) + months
\* is outside 0000-01 .. 9999-12 and a DateTime of that month otherwise; a
\* very large months (a multiple of 12 * 65536) is not reduced to a smaller
\* shift.
C14_AddMonthsWholeRange ==
    \A k \in 1..Len(calls) :
        calls[k].op = "add_months" /\ ValidDateTime(calls[k].from) =>
            LET t == calls[k].from
                index == 12 * year(t) + (month(t) - 1) + calls[k].arg
            IN  IF calls[k].arg \in -200000..200000 /\ index \in 0..(12 * MAX_YEAR + 11)
                THEN /\ ReturnedOk(k)
                     /\ year(Returned(k)) = index \div 12
                     /\ month(Returned(k)) = (index % 12) + 1
                ELSE Outcome(k) = "none"


-----------------------------------------------------------------------------
(* Minutes and hours over the whole range of an i64 and of an i32.         *)

\* The exact day shift floor((minute_of_day + delta) / 1440) of call k, when it
\* is at most MaxDayShift in magnitude, the length of the range of DateTime;
\* None when it is larger (a sum beyond the i64 range is more than 2^63 / 1440
\* days away).
MaxDayShift == MAX_FIXED_DAY - MIN_FIXED_DAY
DayShift(k) ==
    LET m == XInt(MinuteOfDay(calls[k].from))
    IN  IF XAddOverflows(m, MinutesOf(k)) THEN None
        ELSE With(XDivModFloor(XAdd(m, MinutesOf(k)), 1440)[1], LAMBDA q :
                 IF XFitsI32(q) /\ XAsI32(q) \in -MaxDayShift..MaxDayShift
                 THEN Some(XAsI32(q)) ELSE None)

\* C15: for a DateTime of the range and any i64 of minutes or i32 of hours,
\* checked_add_minutes and checked_add_hours return None when the exact target
\* day is outside 0000-01-01..9999-12-31, return a DateTime of exactly the
\* target day otherwise, and never panic.
C15_AddMinutesWholeRange ==
    \A k \in 1..Len(calls) :
        calls[k].op \in {"add_minutes", "add_hours"} /\ ValidDateTime(calls[k].from) =>
            LET shift == DayShift(k)
            IN  IF /\ shift.tag = "Some"
                   /\ FixedDay(calls[k].from) + shift.v \in MIN_FIXED_DAY..MAX_FIXED_DAY
                THEN ReturnedOk(k) /\ FixedDay(Returned(k)) = FixedDay(calls[k].from) + shift.v
                ELSE Outcome(k) = "none"


-----------------------------------------------------------------------------
(* GregorianNormalizedDate values on their own.                            *)

\* GregorianNormalizedDate::to_date: Some(<<year, month, day>>), or Panic.  The
\* year is summed in i16 and cast to u16; `year += 1` is a u16 addition.
to_date(g, checks) ==
    With(400 * g.cycle, LAMBDA p :
    With(2000 + AsI16(p), LAMBDA s1 :
    With(AsI16(s1) + 100 * g.century, LAMBDA s2 :
    With(AsI16(s2) + 4 * g.quadrennium, LAMBDA s3 :
    With(AsI16(s3) + g.year, LAMBDA s4 :
    With(AsU16(AsI16(s4)), LAMBDA year16 :
    With(month_day_from_year_day(g.day), LAMBDA md :  \* <<month, days_into_month>>
        IF checks /\ ~(InI16(p) /\ InI16(s1) /\ InI16(s2) /\ InI16(s3) /\ InI16(s4))
        THEN Panic
        ELSE IF md[1] + 2 >= 12
        THEN IF checks /\ AsU16(year16 + 1) # year16 + 1 THEN Panic
             ELSE Some(<<AsU16(year16 + 1), (md[1] + 2 - 12) + 1, md[2] + 1>>)
        ELSE Some(<<year16, (md[1] + 2) + 1, md[2] + 1>>))))))))

\* is_unnormalized_leap_year, had it not moved to the next year from January 1.
is_unnormalized_leap_year_of_march_year(g) ==
    LET y == 100 * g.century + 4 * g.quadrennium + g.year
    IN  (y % 4 = 0) /\ (y % 100 # 0 \/ y = 0)

\* GregorianNormalizedDate::is_unnormalized_leap_year
is_unnormalized_leap_year(g) ==
    LET y0 == 100 * g.century + 4 * g.quadrennium + g.year
        y == IF g.day >= JANUARY_1_DAY_OFFSET THEN (y0 + 1) % 400 ELSE y0
    IN  (y % 4 = 0) /\ (y % 100 # 0 \/ y = 0)

\* No GregorianNormalizedDate is held yet; pc is "gnd" once one is.
InitGnd ==
    /\ overflow_checks \in BOOLEAN
    /\ builder = NewBuilder
    /\ pc = "start"
    /\ dt = NoDt
    /\ carry = NoCarry
    /\ error = NoError
    /\ calls = <<>>
    /\ gdate = NoGnd
    /\ loader = NoLoader
    /\ cursor = NoCursor

\* A call on a GregorianNormalizedDate, or of one of its constructors, and what
\* it returned.
GndCall(op, arg, out) ==
    /\ calls' = Append(calls, [op |-> op, arg |-> arg, from |-> gdate, out |-> out])
    /\ UNCHANGED <<overflow_checks, builder, dt, carry, loader, cursor>>

CanConstruct == pc = "start" /\ Len(calls) < MaxCalls
CanCallGnd == pc \in {"gnd", "error"} /\ gdate # NoGnd /\ Len(calls) < MaxCalls

\* GregorianNormalizedDate::from_day
FromDay(d) ==
    /\ CanConstruct
    /\ \E r \in {from_day(d)} :
           /\ pc' = (IF r.tag = "Some" THEN "gnd" ELSE "none")
           /\ gdate' = (IF r.tag = "Some" THEN r.v ELSE gdate)
           /\ GndCall("from_day", d, r)
    /\ UNCHANGED error

\* GregorianNormalizedDate::from_date; date is <<year, month, day>>
FromDate(ymd) ==
    /\ pc \in {"start", "date"} /\ Len(calls) < MaxCalls
    /\ \E r \in {from_date(ymd[1], ymd[2], ymd[3], overflow_checks)} :
           /\ pc' = (IF r.tag = "Ok" THEN "gnd" ELSE IF r.tag = "Err" THEN "error" ELSE "panic")
           /\ gdate' = (IF r.tag = "Ok" THEN r.v ELSE gdate)
           /\ error' = (IF r.tag = "Err" THEN r.err ELSE NoError)
           /\ GndCall("from_date", ymd, r)

\* GregorianNormalizedDate::add_days on the date held (&mut self)
GndAddDays(days) ==
    /\ CanCallGnd
    /\ \E r \in {add_days(gdate, days, overflow_checks)} :
           /\ pc' = (IF r.tag = "Ok" THEN "gnd" ELSE IF r.tag = "Err" THEN "error" ELSE "panic")
           /\ gdate' = (IF r.tag = "Ok" THEN r.v ELSE gdate)
           /\ error' = (IF r.tag = "Err" THEN r.err ELSE NoError)
           /\ GndCall("add_days", days, r)

\* GregorianNormalizedDate::to_day
ToDay ==
    /\ CanCallGnd
    /\ pc' = "gnd"
    /\ GndCall("to_day", <<>>, to_day(gdate))
    /\ UNCHANGED <<gdate, error>>

\* GregorianNormalizedDate::to_date; the caller holds the date it returned
ToDate ==
    /\ CanCallGnd
    /\ \E r \in {to_date(gdate, overflow_checks)} :
           /\ pc' = (IF r.tag = "Some" THEN "date" ELSE "panic")
           /\ GndCall("to_date", <<>>, r)
    /\ UNCHANGED <<gdate, error>>

\* GregorianNormalizedDate::is_unnormalized_leap_year
IsUnnormalizedLeapYear ==
    /\ CanCallGnd
    /\ pc' = "gnd"
    /\ GndCall("is_unnormalized_leap_year", <<>>, is_unnormalized_leap_year(gdate))
    /\ UNCHANGED <<gdate, error>>

\* The date a to_date call just returned
LastDate == calls[Len(calls)].out.v


\* Days added to a GregorianNormalizedDate, by small and by very large amounts.
\* 1970-01-01, 2000-02-29, 2000-03-01, 0000-01-01, 9999-12-31, the first and the
\* last day of the representable domain
AddDaysStarts ==
    {0, GREGORIAN_NORMALIZED_DATE_OFFSET_DAYS - 1, GREGORIAN_NORMALIZED_DATE_OFFSET_DAYS,
     MIN_FIXED_DAY, MAX_FIXED_DAY, GND_MIN_FIXED_DAY, GND_MAX_FIXED_DAY}
GndDaySpan == GND_MAX_FIXED_DAY - GND_MIN_FIXED_DAY
WideDaySteps ==
    {-1, 1, -366, 366, -GREGORIAN_CYCLE_DAYS, GREGORIAN_CYCLE_DAYS,
     -GndDaySpan, GndDaySpan, I32_MIN, I32_MIN + 1, I32_MAX}

NextGndAddDays ==
    \/ pc = "start" /\ \E d \in AddDaysStarts : FromDay(d)
    \/ \E days \in WideDaySteps : GndAddDays(days)

SpecGndAddDays == InitGnd /\ [][NextGndAddDays]_vars

\* The GregorianNormalizedDate held after call k
GndAfter(k) == IF k < Len(calls) THEN calls[k + 1].from ELSE gdate

\* C16: for a valid GregorianNormalizedDate g and any i32 days, add_days(days)
\* never panics, and when to_day(g) + days is outside [MIN_FIXED_DAY,
\* MAX_FIXED_DAY] it returns Err(OutOfBounds) and leaves g as it was.
C16_AddDaysOutOfBounds ==
    \A k \in 1..Len(calls) :
        calls[k].op = "add_days" =>
            LET g == calls[k].from
                days == calls[k].arg
                outside ==
                    \/ days > GndDaySpan
                    \/ days < -GndDaySpan
                    \/ to_day(g) + days < GND_MIN_FIXED_DAY
                    \/ to_day(g) + days > GND_MAX_FIXED_DAY
            IN  /\ calls[k].out.tag # "Panic"
                /\ outside => calls[k].out = Err(ErrOutOfBounds) /\ GndAfter(k) = g


-----------------------------------------------------------------------------
(* The carry of a DateTimeWithCarry: unwrapped, dropped and applied.       *)

CarryStarts ==
    {<<1998, 12, 31, 23, 59, 60>>, <<2016, 12, 31, 23, 59, 60>>,
     <<2001, 1, 31, 12, 0, 0>>, <<2000, 2, 29, 12, 0, 0>>, <<2000, 3, 1, 0, 0, 0>>}
CarryYears == {1}
CarryMonths == {-18, 1, 2}
CarryDays == {0, 1}
CarryMinutes == {XInt(1)}

InitCarry == \E start \in CarryStarts : Built(start)

NextCarry ==
    \/ \E years \in CarryYears : AddYears(years)
    \/ \E months \in CarryMonths : AddMonths(months)
    \/ \E days \in CarryDays : AddDays(days)
    \/ \E minutes \in CarryMinutes : AddMinutes(minutes)
    \/ Unwrap
    \/ DropCarry
    \/ ApplyCarry

SpecCarry == InitCarry /\ [][NextCarry]_vars

\* C17: for every DateTimeWithCarry a call returned, unwrap returns the
\* DateTime when the carry is zero and panics when it is not; drop_carry
\* returns the DateTime unchanged; checked_apply_carry
\* returns what checked_add_seconds gives for the DateTime add_days(days) gave
\* (on the day `days` later) and the seconds of the carry plus the seconds
\* add_days carried; add_days carries no days there; with a zero carry the
\* DateTime itself comes back.
C17_Carry ==
    \A k \in 1..Len(calls) :
        LET t == calls[k].from
            c == calls[k].arg
        IN  /\ calls[k].op = "unwrap" =>
                IF c = NoCarry
                THEN Outcome(k) = "value" /\ Returned(k) = t
                ELSE k = Len(calls) /\ pc = "panic"
            /\ calls[k].op = "drop_carry" => ReturnedOk(k) /\ Returned(k) = t
            /\ calls[k].op = "apply_carry" =>
                LET moved == checked_add_days(t, c.days, overflow_checks)
                IN  /\ c = NoCarry => ReturnedOk(k) /\ Returned(k) = t
                    /\ moved.tag = "Some" =>
                        /\ moved.v.days = 0
                        /\ FixedDay(moved.v.dt) = FixedDay(t) + c.days
                        /\ LET sum == checked_add_seconds(
                                          moved.v.dt, WInt(c.seconds + moved.v.seconds),
                                          overflow_checks)
                           IN  IF sum.tag = "Some"
                               THEN ReturnedOk(k) /\ Returned(k) = sum.v
                               ELSE Outcome(k) = "none"


-----------------------------------------------------------------------------
(* from_day and to_day over the representable domain.                      *)

\* The days from_day is called with: the days around both ends of the domain,
\* around 2000-03-01 (the start of cycle 0), around the ends of its first century
\* and of its first quadrennium, every DayStride-th day of the domain, and the
\* ends of i32.
DayWindow == 1500
DayStride == 9973
DaysAround(d) == (d - DayWindow)..(d + DayWindow)
RoundTripDays ==
    DaysAround(GND_MIN_FIXED_DAY) \cup DaysAround(GND_MAX_FIXED_DAY)
        \cup DaysAround(GREGORIAN_NORMALIZED_DATE_OFFSET_DAYS)
        \cup DaysAround(GREGORIAN_NORMALIZED_DATE_OFFSET_DAYS + GREGORIAN_CENTURY_DAYS)
        \cup DaysAround(GREGORIAN_NORMALIZED_DATE_OFFSET_DAYS + GREGORIAN_QUADRENNIUM_DAYS)
        \cup {GND_MIN_FIXED_DAY + DayStride * i : i \in 0..(GndDaySpan \div DayStride)}
        \cup {I32_MIN, I32_MAX}
\* The dates from_date is called with
RoundTripDates ==
    {<<2000, 2, 29>>, <<2000, 3, 1>>, <<1900, 2, 28>>, <<1900, 3, 1>>, <<2100, 12, 31>>,
     <<GND_MIN_YEAR, 1, 1>>, <<GND_MAX_YEAR, 12, 31>>, <<0, 1, 1>>, <<9999, 12, 31>>}

NextGndDays ==
    \/ pc = "start" /\ \E d \in RoundTripDays : FromDay(d)
    \/ pc = "start" /\ \E ymd \in RoundTripDates : FromDate(ymd)
    \/ ToDay

SpecGndDays == InitGnd /\ [][NextGndDays]_vars

\* g is normalized: century 0..=3, quadrennium 0..=24, year 0..=3, day 0..=364, or
\* 365 in the last year of a quadrennium that is not the last of a century other
\* than the fourth.
Normalized(g) ==
    /\ g.cycle \in I8_MIN..I8_MAX
    /\ g.century \in 0..3 /\ g.quadrennium \in 0..24 /\ g.year \in 0..3
    /\ g.day \in 0..365
    /\ g.day = 365 => g.year = 3 /\ (g.quadrennium # 24 \/ g.century = 3)

\* C18: from_day(d) is Some exactly for MIN_FIXED_DAY <= d <= MAX_FIXED_DAY; then
\* it is normalized and to_day gives d back; and from_day(to_day(g)) is g for
\* every normalized g.
C18_FromDayToDayInverse ==
    \A k \in 1..Len(calls) :
        /\ calls[k].op = "from_day" =>
            /\ calls[k].out.tag = "Some"
                   <=> (GND_MIN_FIXED_DAY <= calls[k].arg /\ calls[k].arg <= GND_MAX_FIXED_DAY)
            /\ calls[k].out.tag = "Some" =>
                   /\ Normalized(calls[k].out.v)
                   /\ to_day(calls[k].out.v) = calls[k].arg
                   /\ k < Len(calls) /\ calls[k + 1].op = "to_day" =>
                          calls[k + 1].out = calls[k].arg
        /\ calls[k].op = "to_day" /\ Normalized(calls[k].from) =>
               from_day(calls[k].out) = Some(calls[k].from)

\* The last day of cycle -1, 2000-02-29 (day 365 of the last year of the fourth
\* century), from from_day and back through to_day.
C18_Witness ==
    /\ Len(calls) = 2
    /\ calls[1].op = "from_day" /\ calls[1].arg = GREGORIAN_NORMALIZED_DATE_OFFSET_DAYS - 1
    /\ calls[2].op = "to_day" /\ calls[2].from = GND(-1, 3, 24, 3, 365)
    /\ calls[2].out = GREGORIAN_NORMALIZED_DATE_OFFSET_DAYS - 1


-----------------------------------------------------------------------------
(* to_date and from_date over the representable domain.                    *)

\* Every DayStride-th day of the domain, its two ends, 0000-01-01 and the day
\* before it, 0000-03-01, 9999-12-31, 1970-01-01 and 2000-02-29
DateRoundTripDays ==
    {GND_MIN_FIXED_DAY + DayStride * i : i \in 0..(GndDaySpan \div DayStride)}
        \cup {GND_MIN_FIXED_DAY, GND_MAX_FIXED_DAY, MIN_FIXED_DAY - 1, MIN_FIXED_DAY,
              MIN_FIXED_DAY + 60, MAX_FIXED_DAY, 0, GREGORIAN_NORMALIZED_DATE_OFFSET_DAYS - 1}

NextGndDates ==
    \/ pc = "start" /\ \E d \in DateRoundTripDays : FromDay(d)
    \/ ToDate
    \/ pc = "date" /\ FromDate(LastDate)

SpecGndDates == InitGnd /\ [][NextGndDates]_vars

\* C19: for every normalized g of the domain to_date returns the proleptic
\* Gregorian <<year, month, day>> of g, and from_date of it returns g.
C19_FromDateToDateInverse ==
    \A k \in 1..Len(calls) :
        calls[k].op = "to_date" /\ Normalized(calls[k].from) =>
            LET g == calls[k].from
            IN  /\ calls[k].out =
                       Some(<<unnormalized_year(g), unnormalized_month(g), unnormalized_day(g)>>)
                /\ k < Len(calls) /\ calls[k + 1].op = "from_date" =>
                       calls[k + 1].out = Ok(g)


-----------------------------------------------------------------------------
(* The leap-year rule.                                                     *)

\* February 29, February 28 and March 1 of every year of the DateTime range
LeapDates == {<<y, md[1], md[2]>> : y \in MIN_YEAR..MAX_YEAR, md \in {<<2, 29>>, <<2, 28>>, <<3, 1>>}}

NextLeap ==
    \/ pc = "start" /\ \E ymd \in LeapDates : FromDate(ymd)
    \/ IsUnnormalizedLeapYear

SpecLeap == InitGnd /\ [][NextLeap]_vars

\* C20: from_date(Y, 2, 29) succeeds exactly for the years Y of 0..=9999 with
\* Y % 4 = 0 and (Y % 100 # 0 or Y % 400 = 0); and is_unnormalized_leap_year of a
\* date, before March 1 or after, is that rule for the date's calendar year.
C20_LeapYearRule ==
    \A k \in 1..Len(calls) :
        /\ calls[k].op = "from_date" /\ calls[k].arg[2] = 2 /\ calls[k].arg[3] = 29 =>
               (calls[k].out.tag = "Ok" <=> IsLeap(calls[k].arg[1]))
        /\ calls[k].op = "from_date" /\ calls[k].out.tag = "Ok" =>
               unnormalized_year(calls[k].out.v) = calls[k].arg[1]
        /\ calls[k].op = "is_unnormalized_leap_year" =>
               (calls[k].out <=> IsLeap(unnormalized_year(calls[k].from)))

\* 2000-02-29 is accepted, a day of the normalized year that began in March
\* 1999, and is_unnormalized_leap_year of it is true.
C20_Witness ==
    /\ Len(calls) = 2 /\ pc = "gnd"
    /\ calls[1].op = "from_date" /\ calls[1].arg = <<2000, 2, 29>>
    /\ calls[1].out = Ok(GND(-1, 3, 24, 3, 365))
    /\ calls[2].op = "is_unnormalized_leap_year" /\ calls[2].out = TRUE
    /\ calls[2].from = GND(-1, 3, 24, 3, 365)


-----------------------------------------------------------------------------
(* Days added within a year and across years, centuries and cycles.        *)

\* The two days before and after 2000-03-01 (the start of cycle 0), 1900-03-01
\* (the start of a century with no leap day before it), 2004-03-01, 2001-03-01,
\* 2001-01-01, and the first and last days of the domain.
ShiftStarts ==
    UNION {(d - 2)..(d + 1) :
              d \in {GREGORIAN_NORMALIZED_DATE_OFFSET_DAYS,
                     GREGORIAN_NORMALIZED_DATE_OFFSET_DAYS - GREGORIAN_CENTURY_DAYS,
                     GREGORIAN_NORMALIZED_DATE_OFFSET_DAYS + GREGORIAN_QUADRENNIUM_DAYS,
                     GREGORIAN_NORMALIZED_DATE_OFFSET_DAYS + GREGORIAN_YEAR_DAYS,
                     GREGORIAN_NORMALIZED_DATE_OFFSET_DAYS + JANUARY_1_DAY_OFFSET}}
        \cup {GND_MIN_FIXED_DAY, GND_MIN_FIXED_DAY + 1, GND_MAX_FIXED_DAY - 1, GND_MAX_FIXED_DAY}
DaySteps ==
    {-1, 1, -2, 2, -59, 59, -GREGORIAN_YEAR_DAYS, GREGORIAN_YEAR_DAYS,
     -GREGORIAN_YEAR_DAYS - 1, GREGORIAN_YEAR_DAYS + 1,
     -GREGORIAN_CENTURY_DAYS, GREGORIAN_CENTURY_DAYS,
     -GREGORIAN_CYCLE_DAYS, GREGORIAN_CYCLE_DAYS}

NextGndShift ==
    \/ pc = "start" /\ \E d \in ShiftStarts : FromDay(d)
    \/ \E days \in DaySteps : GndAddDays(days)

SpecGndShift == InitGnd /\ [][NextGndShift]_vars

\* C21: for a normalized g and k with to_day(g) + k in the domain, add_days(k)
\* succeeds and leaves from_day(to_day(g) + k); add_days(-k) after it gives g
\* back.
C21_AddDaysIsFromDayOfSum ==
    \A k \in 1..Len(calls) :
        /\ calls[k].op = "add_days" /\ Normalized(calls[k].from)
        /\ to_day(calls[k].from) + calls[k].arg \in GND_MIN_FIXED_DAY..GND_MAX_FIXED_DAY
        =>
            LET g == calls[k].from
                days == calls[k].arg
            IN  /\ calls[k].out.tag = "Ok"
                /\ from_day(to_day(g) + days) = Some(GndAfter(k))
                /\ to_day(GndAfter(k)) = to_day(g) + days
                /\ Normalized(GndAfter(k))
                /\ k < Len(calls) /\ calls[k + 1].op = "add_days" /\ calls[k + 1].arg = -days =>
                       calls[k + 1].out.tag = "Ok" /\ GndAfter(k + 1) = g

\* 2000-02-28 + 2 days = 2000-03-01, over the leap day and into cycle 0 by the
\* slow path, and - 2 days back.
C21_Witness ==
    /\ Len(calls) = 3 /\ pc = "gnd"
    /\ calls[2].op = "add_days" /\ calls[2].arg = 2
    /\ calls[2].from = GND(-1, 3, 24, 3, 364)
    /\ calls[3].op = "add_days" /\ calls[3].arg = -2
    /\ calls[3].from = GND(0, 0, 0, 0, 0)
    /\ gdate = GND(-1, 3, 24, 3, 364)
    /\ loader = NoLoader
    /\ cursor = NoCursor


-----------------------------------------------------------------------------
(* The packed representation: pack and unpack.                             *)

PackPrecisions == {decode_precision(p) : p \in 0..12}
\* 0000-01-01, 9999-12-31, 2000-03-01, 2000-02-29
PackDates == {MIN_GND, MAX_GND, GND(0, 0, 0, 0, 0), GND(-1, 3, 24, 3, 365)}
PackSeconds == {0, 1, 65535, 65536, 86399, 86400, 86401}
PackNanoseconds == {0, 1, 65535, 65536, 1000000, 999999999}
PackInputs ==
    {<<p, g, s, n>> : p \in PackPrecisions, g \in PackDates,
                      s \in PackSeconds, n \in PackNanoseconds}

InitPack ==
    /\ overflow_checks \in BOOLEAN
    /\ builder = NewBuilder
    /\ pc = "start"
    /\ dt = NoDt
    /\ carry = NoCarry
    /\ error = NoError
    /\ calls = <<>>
    /\ gdate = NoGnd
    /\ loader = NoLoader
    /\ cursor = NoCursor

\* DateTime::pack of the fields in
Pack(in) ==
    /\ pc = "start"
    /\ dt' = pack(in[1], in[2], in[3], in[4])
    /\ pc' = "packed"
    /\ calls' = Append(calls, [op |-> "pack", arg |-> in, from |-> dt])
    /\ UNCHANGED <<overflow_checks, builder, carry, error, gdate, loader, cursor>>

\* DateTime::unpack of the words held; arg is what it returned
Unpack ==
    /\ pc = "packed"
    /\ pc' = "unpacked"
    /\ calls' = Append(calls, [op |-> "unpack", arg |-> unpack(dt.w0, dt.w1), from |-> dt])
    /\ UNCHANGED <<overflow_checks, builder, dt, carry, error, gdate, loader, cursor>>

NextPack ==
    \/ \E in \in PackInputs : Pack(in)
    \/ Unpack

SpecPack == InitPack /\ [][NextPack]_vars

\* C22: unpack(pack(precision, gnd, second, nanosecond)) is <<precision, gnd,
\* second, nanosecond>> for every precision, date of the range, second of day
\* in 0..=86401 and nanosecond in 0..=999999999; and no other fields pack to
\* the same words.
C22_PackUnpackRoundTrip ==
    /\ Len(calls) = 2 /\ calls[2].op = "unpack" => calls[2].arg = calls[1].arg
    /\ Len(calls) = 1 /\ calls[1].op = "pack" =>
           \A other \in PackInputs :
               pack(other[1], other[2], other[3], other[4]) = dt => other = calls[1].arg


-----------------------------------------------------------------------------
(* spill_eod_second_overflow on days inside and outside the segments.      *)

\* The last day of the first and of the last segment, the days before and after
\* them, the first day of the first segment and the day before it, 2000-03-01
SpillDays ==
    UNION {(end_day(s) - 2)..end_day(s) : s \in {Segments[1], Segments[Len(Segments)]}}
        \cup {-1, 0, GREGORIAN_NORMALIZED_DATE_OFFSET_DAYS, MIN_FIXED_DAY, MAX_FIXED_DAY}
\* Seconds of the day up to two past 23:59:59
SpillSeconds == {0, SECONDS_PER_DAY - 1, SECONDS_PER_DAY, SECONDS_PER_DAY + 1}

\* DateTime::spill_eod_second_overflow for the date held
Spill(sec) ==
    /\ CanCallGnd
    /\ pc' = "gnd"
    /\ GndCall("spill_eod_second_overflow", sec, spill_eod_second_overflow(gdate, sec))
    /\ UNCHANGED <<gdate, error>>

NextSpill ==
    \/ pc = "start" /\ \E d \in SpillDays : FromDay(d)
    \/ \E sec \in SpillSeconds : Spill(sec)

SpecSpill == InitGnd /\ [][NextSpill]_vars

-----------------------------------------------------------------------------
(* Lookups in the segment store.                                           *)

\* The first and the last day of every segment and the days next to them, and
\* the ends of i32
LookupDays ==
    UNION {{s.start_day - 1, s.start_day, end_day(s) - 1, end_day(s)} :
              s \in {Segments[i] : i \in 1..Len(Segments)}}
        \cup {I32_MIN, I32_MAX}
\* The first and the last seconds of every segment (the last being its leap
\* second) and the seconds next to them
LookupInstants ==
    UNION {{s.start_instant - 1, s.start_instant, s.start_instant + 1,
            end_instant(s) - 2, end_instant(s) - 1, end_instant(s)} :
              s \in {Segments[i] : i \in 1..Len(Segments)}}
        \cup {-I32_MAX, I32_MAX}

\* LeapSecondChronology::by_day
ByDay(d) ==
    /\ pc = "start"
    /\ pc' = "found"
    /\ calls' = Append(calls, [op |-> "by_day", arg |-> d, from |-> NoGnd, out |-> by_day(d)])
    /\ UNCHANGED <<overflow_checks, builder, dt, carry, error, gdate, loader, cursor>>

\* LeapSecondChronology::by_instant
ByInstant(i) ==
    /\ pc = "start"
    /\ pc' = "found"
    /\ calls' = Append(calls, [op |-> "by_instant", arg |-> i, from |-> NoGnd,
                               out |-> by_instant(WInt(i))])
    /\ UNCHANGED <<overflow_checks, builder, dt, carry, error, gdate, loader, cursor>>

NextLookup ==
    \/ \E d \in LookupDays : ByDay(d)
    \/ \E i \in LookupInstants : ByInstant(i)

SpecLookup == InitGnd /\ [][NextLookup]_vars

\* The segments whose days hold day d, and whose seconds hold instant i
SegmentsOfDay(d) ==
    {n \in 1..Len(Segments) : Segments[n].start_day <= d /\ d < end_day(Segments[n])}
SegmentsOfInstant(i) ==
    {n \in 1..Len(Segments) : Segments[n].start_instant <= i /\ i < end_instant(Segments[n])}

\* The three-way result for x, given the segments that hold x and whether x is
\* before the first segment
Positioned(out, holding, before_first) ==
    /\ out.kind # "AssertFailed"
    /\ out.kind = "BeforeFirst" <=> before_first
    /\ out.kind = "AfterLast" <=> (~before_first /\ holding = {})
    /\ out.kind = "In" <=> holding # {}
    /\ out.kind = "In" => holding = {n \in 1..Len(Segments) : Segments[n] = out.segment}

\* C24: by_day(d) is In the one segment with start_day <= d < start_day +
\* duration_days, BeforeFirst iff d < first.start_day, AfterLast iff d is at or
\* past the end of the last; by_instant(i) the same on [start_instant,
\* start_instant + 86400 * duration_days + leap_seconds); the assertion on a
\* failed search never fails.
C24_LookupPositions ==
    \A k \in 1..Len(calls) :
        /\ calls[k].op = "by_day" =>
               Positioned(calls[k].out, SegmentsOfDay(calls[k].arg),
                          calls[k].arg < Segments[1].start_day)
        /\ calls[k].op = "by_instant" =>
               Positioned(calls[k].out, SegmentsOfInstant(calls[k].arg),
                          calls[k].arg < Segments[1].start_instant)

\* The leap second at the end of the first segment (1972-06-30 23:59:60) is
\* found in the first segment.
C24_Witness ==
    /\ Len(calls) = 1 /\ calls[1].op = "by_instant"
    /\ calls[1].arg = Segments[1].start_instant + 86400 * Segments[1].duration_days
    /\ Segments[1].leap_seconds = 1
    /\ calls[1].out = [kind |-> "In", segment |-> Segments[1]]


-----------------------------------------------------------------------------
(* load_leap_segments run on a leap-second table, one loop iteration at a   *)
(* time.                                                                    *)

\* a * 86400 on limbs
XMul86400(a) == XMul(XMul(a, 400), 216)

\* The i64 timestamp of second sod of day d (limbs).
Timestamp(d, sod) == XAdd(XMul86400(XInt(d)), XInt(sod))

\* `timestamp as u32 / 86400`: the low 32 bits, read unsigned, divided.
TimestampDayU32(timestamp) ==
    With(XUDivMod(<<0, 0, timestamp[3], timestamp[4]>>, 400)[1], LAMBDA q :
        XAsI32(XUDivMod(q, 216)[1]))

\* Signed order of two i64 limbs.
XLess(a, b) ==
    IF XNegative(a) # XNegative(b) THEN XNegative(a)
    ELSE \/ a[1] < b[1]
         \/ a[1] = b[1] /\ a[2] < b[2]
         \/ a[1] = b[1] /\ a[2] = b[2] /\ a[3] < b[3]
         \/ a[1] = b[1] /\ a[2] = b[2] /\ a[3] = b[3] /\ a[4] < b[4]

\* An i32 operation on the exact result r (limbs): panics on overflow with
\* overflow checks, wraps without.
I32Arith(r, checks) ==
    IF XFitsI32(r) THEN Some(XAsI32(r))
    ELSE IF checks THEN Panic
    ELSE Some(XAsI32(r))

\* One iteration of the loop of load_leap_segments on the locals l and the
\* table entry leap_second = [timestamp, leap_second_count]: the locals after
\* it, or Panic.
LoadIteration(l, leap_second, checks) ==
    With(TimestampDayU32(leap_second.timestamp), LAMBDA end :
    With(leap_second.leap_second_count, LAMBDA leap_second_total :
    With(leap_second_total - l.previous_leap_second_total, LAMBDA leap_seconds :
        IF ~InI8(leap_seconds) THEN Panic
        ELSE IF end < l.start_day /\ checks THEN Panic
        ELSE
        With(IF end < l.start_day
             THEN XBase * XBase + (end - l.start_day)
             ELSE end - l.start_day, LAMBDA duration_days :
        With(I32Arith(XMul86400(XInt(duration_days)), checks), LAMBDA product :
            IF product.tag = "Panic" THEN Panic
            ELSE
            With(I32Arith(XAdd(XInt(product.v), XInt(leap_seconds)), checks),
                 LAMBDA duration_seconds :
                IF duration_seconds.tag = "Panic" THEN Panic
                ELSE
                With(XAdd(XInt(l.start_instant), XInt(duration_seconds.v)),
                     LAMBDA next_instant :
                    IF ~XFitsI32(next_instant) THEN Panic
                    ELSE Some(
                        [segments |-> Append(l.segments,
                            [start_instant |-> l.start_instant,
                             start_day |-> l.start_day,
                             duration_days |-> duration_days,
                             leap_seconds |-> leap_seconds,
                             accumulated_leap_seconds |->
                                 l.previous_leap_second_total]),
                         start_instant |-> XAsI32(next_instant),
                         start_day |-> l.start_day + duration_days,
                         previous_leap_second_total |-> leap_second_total]))))))))

MaxTableLen == 2

\* Days of the table entries: before the epoch, the epoch, the first leap
\* seconds of right/UTC, the last one, the days around i32::MAX seconds, a
\* day of 2040, and the days around u32::MAX seconds.
TableDays == {-1, 0, 912, 1096, 17167, 24855, 24856, 25567, 49710, 49711}
TableSeconds == {0, 1}
TableCounts == {-1, 1, 2, 200}

TableEntries ==
    {[timestamp |-> Timestamp(d, sod), leap_second_count |-> c] :
        d \in TableDays, sod \in TableSeconds, c \in TableCounts}

\* Tables sorted ascending by timestamp, the days of whose entries, read as
\* the loop reads them, do not go backwards.
SortedTables ==
    {t \in UNION {[1..n -> TableEntries] : n \in 1..MaxTableLen} :
        \A k \in 1..(Len(t) - 1) :
            /\ XLess(t[k].timestamp, t[k + 1].timestamp)
            /\ TimestampDayU32(t[k].timestamp) <= TimestampDayU32(t[k + 1].timestamp)}

InitLoad ==
    /\ overflow_checks \in BOOLEAN
    /\ builder = NewBuilder
    /\ pc = "start"
    /\ dt = NoDt
    /\ carry = NoCarry
    /\ error = NoError
    /\ calls = <<>>
    /\ gdate = NoGnd
    /\ loader = NoLoader
    /\ cursor = NoCursor

\* load_leap_segments up to its loop, on the table tz.leap_seconds.
LoadStart(table) ==
    /\ pc = "start"
    /\ loader' = [table |-> table, i |-> 1, segments |-> <<>>, start_instant |-> 0,
                  start_day |-> 0, previous_leap_second_total |-> 0]
    /\ pc' = "loading"
    /\ UNCHANGED <<overflow_checks, builder, dt, carry, error, calls, gdate, cursor>>

\* One iteration of the loop.
LoadStep ==
    /\ pc = "loading"
    /\ loader.i <= Len(loader.table)
    /\ \E r \in {LoadIteration(loader, loader.table[loader.i], overflow_checks)} :
           IF r.tag = "Panic"
           THEN pc' = "panic" /\ UNCHANGED loader
           ELSE /\ pc' = "loading"
                /\ loader' = [loader EXCEPT
                       !.i = loader.i + 1,
                       !.segments = r.v.segments,
                       !.start_instant = r.v.start_instant,
                       !.start_day = r.v.start_day,
                       !.previous_leap_second_total = r.v.previous_leap_second_total]
    /\ UNCHANGED <<overflow_checks, builder, dt, carry, error, calls, gdate, cursor>>

\* The loop is over: the segments are returned.
LoadReturn ==
    /\ pc = "loading"
    /\ loader.i > Len(loader.table)
    /\ pc' = "loaded"
    /\ UNCHANGED <<overflow_checks, builder, dt, carry, error, calls, gdate, loader,
                   cursor>>

NextLoad ==
    \/ pc = "start" /\ \E table \in SortedTables : LoadStart(table)
    \/ LoadStep
    \/ LoadReturn

SpecLoad == InitLoad /\ [][NextLoad]_vars

RECURSIVE SumLeapSeconds(_, _)
SumLeapSeconds(segments, n) ==
    IF n = 0 THEN 0 ELSE SumLeapSeconds(segments, n - 1) + segments[n].leap_seconds

\* The segment after s starts where s ends, in exact arithmetic.
Contiguous(s, next) ==
    /\ next.start_day = s.start_day + s.duration_days
    /\ XInt(next.start_instant)
           = XAdd(XAdd(XInt(s.start_instant), XMul86400(XInt(s.duration_days))),
                  XInt(s.leap_seconds))

SegmentInvariants(segments) ==
    /\ Len(segments) > 0 =>
           segments[1].start_day = 0 /\ segments[1].start_instant = 0
    /\ \A k \in 1..(Len(segments) - 1) : Contiguous(segments[k], segments[k + 1])
    /\ \A k \in 1..Len(segments) :
           segments[k].accumulated_leap_seconds = SumLeapSeconds(segments, k - 1)

\* C25: for every table sorted ascending by timestamp, after every iteration
\* of the loop of load_leap_segments the first segment starts on day 0 at
\* instant 0, every next segment starts on the day and at the instant the one
\* before it ends (start_instant + 86400 * duration_days + leap_seconds), and
\* accumulated_leap_seconds is the sum of the leap_seconds of the segments
\* before.
C25_LoadedSegmentsContiguous ==
    loader # NoLoader => SegmentInvariants(loader.segments)


-----------------------------------------------------------------------------
(* slice_cursor.rs and shared_vec_cursor.rs: the cursor. Both files hold    *)
(* the same code, on a slice and on a shared vector.                        *)

\* A usize is kept as an integer: x >= 0 is itself, x < 0 is usize::MAX + 1 + x
\* (a value that wrapped below zero). Unsigned order and minimum:
ULess(a, b) == IF (a < 0) = (b < 0) THEN a < b ELSE b < 0
UMin(a, b) == IF ULess(a, b) THEN a ELSE b

\* a - b and a + b on usize: panic on overflow with overflow checks, wrap
\* without.
USub(a, b, checks) == IF ULess(a, b) /\ checks THEN Panic ELSE Some(a - b)
UAdd(a, b, checks) == IF a < 0 /\ a + b >= 0 /\ checks THEN Panic ELSE Some(a + b)

\* &self.slice[index]: a panic when the index is out of bounds.
SliceIndex(slice, index) ==
    IF 0 <= index /\ index < Len(slice) THEN Some(slice[index + 1]) ELSE Panic

SliceCursor(slice, pos) == [slice |-> slice, pos |-> pos]

\* A call on a cursor gives the cursor after it and what it returns, or Panic.
Moved(c, out) == [tag |-> "Moved", cursor |-> c, out |-> out]

at_start(slice) == SliceCursor(slice, 0)

at_end(slice) == SliceCursor(slice, Len(slice) + 1)

\* assert!(pos < slice.len(), "Position out of bounds")
with_pos(slice, pos) ==
    IF ~(pos < Len(slice)) THEN Panic ELSE Some(SliceCursor(slice, pos + 1))

next(c) ==
    With(Len(c.slice) + 1, LAMBDA end :
        IF ULess(c.pos, end)
        THEN With(SliceCursor(c.slice, c.pos + 1), LAMBDA c1 :
                 IF ULess(c1.pos, end)
                 THEN With(SliceIndex(c.slice, c1.pos - 1), LAMBDA item :
                          IF item.tag = "Panic" THEN Panic ELSE Moved(c1, item))
                 ELSE Moved(c1, None))
        ELSE Moved(c, None))

prev(c) ==
    IF ULess(0, c.pos)
    THEN With(SliceCursor(c.slice, c.pos - 1), LAMBDA c1 :
             IF ULess(0, c1.pos)
             THEN With(SliceIndex(c.slice, c1.pos - 1), LAMBDA item :
                      IF item.tag = "Panic" THEN Panic ELSE Moved(c1, item))
             ELSE Moved(c1, None))
    ELSE Moved(c, None)

current(c) ==
    IF ULess(0, c.pos) /\ ~ULess(Len(c.slice), c.pos)
    THEN With(SliceIndex(c.slice, c.pos - 1), LAMBDA item :
             IF item.tag = "Panic" THEN Panic ELSE Moved(c, item))
    ELSE Moved(c, None)

\* peek_next, had it read the element after the one next() returns.
peek_next_one_further(c) ==
    IF ULess(c.pos + 1, Len(c.slice))
    THEN With(SliceIndex(c.slice, c.pos + 1), LAMBDA item :
             IF item.tag = "Panic" THEN Panic ELSE Moved(c, item))
    ELSE Moved(c, None)

peek_next(c) ==
    IF ULess(c.pos, Len(c.slice))
    THEN With(SliceIndex(c.slice, c.pos), LAMBDA item :
             IF item.tag = "Panic" THEN Panic ELSE Moved(c, item))
    ELSE Moved(c, None)

peek_prev(c) ==
    IF ULess(1, c.pos)
    THEN With(SliceIndex(c.slice, c.pos - 1 - 1), LAMBDA item :
             IF item.tag = "Panic" THEN Panic ELSE Moved(c, item))
    ELSE Moved(c, None)

advance_by(c, n, checks) ==
    With(USub(Len(c.slice), c.pos, checks), LAMBDA remaining :
        IF remaining.tag = "Panic" THEN Panic
        ELSE
        With(UMin(n, remaining.v), LAMBDA advance :
        With(UAdd(c.pos, advance, checks), LAMBDA pos :
            IF pos.tag = "Panic" THEN Panic
            ELSE IF n - advance > 0
            THEN Moved(SliceCursor(c.slice, pos.v), Err(n - advance))
            ELSE Moved(SliceCursor(c.slice, pos.v), Ok(<<>>)))))

revert_by(c, n, checks) ==
    With(USub(c.pos, 1, checks), LAMBDA remaining :
        IF remaining.tag = "Panic" THEN Panic
        ELSE
        With(UMin(n, remaining.v), LAMBDA revert :
        With(USub(c.pos, revert, checks), LAMBDA pos :
            IF pos.tag = "Panic" THEN Panic
            ELSE IF n - revert > 0
            THEN Moved(SliceCursor(c.slice, pos.v), Err(n - revert))
            ELSE Moved(SliceCursor(c.slice, pos.v), Ok(<<>>)))))

\* CursorWithPosition::pos
CursorPos(c) ==
    IF c.pos = 0 THEN [at |-> "Start"]
    ELSE IF c.pos = Len(c.slice) + 1 THEN [at |-> "End"]
    ELSE [at |-> "Pos", i |-> c.pos - 1]

-----------------------------------------------------------------------------
(* Walks of a cursor over slices of every length up to MaxSliceLen.        *)

MaxSliceLen == 3
SliceItems == <<10, 20, 30, 40>>
Slices == {SubSeq(SliceItems, 1, len) : len \in 0..MaxSliceLen}

InitCursor ==
    /\ overflow_checks \in BOOLEAN
    /\ builder = NewBuilder
    /\ pc = "start"
    /\ dt = NoDt
    /\ carry = NoCarry
    /\ error = NoError
    /\ calls = <<>>
    /\ gdate = NoGnd
    /\ loader = NoLoader
    /\ cursor = NoCursor

AtStart(slice) ==
    /\ pc = "start"
    /\ cursor' = at_start(slice)
    /\ pc' = "cursor"
    /\ UNCHANGED <<overflow_checks, builder, dt, carry, error, calls, gdate, loader>>

AtEnd(slice) ==
    /\ pc = "start"
    /\ cursor' = at_end(slice)
    /\ pc' = "cursor"
    /\ UNCHANGED <<overflow_checks, builder, dt, carry, error, calls, gdate, loader>>

WithPos(slice, pos) ==
    /\ pc = "start"
    /\ \E r \in {with_pos(slice, pos)} :
           IF r.tag = "Panic"
           THEN pc' = "panic" /\ UNCHANGED cursor
           ELSE pc' = "cursor" /\ cursor' = r.v
    /\ UNCHANGED <<overflow_checks, builder, dt, carry, error, calls, gdate, loader>>

\* A call on the cursor held: r is what the operation gives.
CursorCall(op, arg, r) ==
    /\ pc = "cursor"
    /\ Len(calls) < MaxCalls
    /\ calls' = Append(calls, [op |-> op, arg |-> arg, from |-> cursor,
                               out |-> IF r.tag = "Panic" THEN Panic ELSE r.out])
    /\ cursor' = (IF r.tag = "Panic" THEN cursor ELSE r.cursor)
    /\ pc' = (IF r.tag = "Panic" THEN "panic" ELSE "cursor")
    /\ UNCHANGED <<overflow_checks, builder, dt, carry, error, gdate, loader>>

CursorNext == CursorCall("next", <<>>, next(cursor))
CursorPrev == CursorCall("prev", <<>>, prev(cursor))
Current == CursorCall("current", <<>>, current(cursor))
PeekNext == CursorCall("peek_next", <<>>, peek_next(cursor))
PeekPrev == CursorCall("peek_prev", <<>>, peek_prev(cursor))

NextCursor ==
    \/ \E slice \in Slices : AtStart(slice)
    \/ \E slice \in Slices : AtEnd(slice)
    \/ \E slice \in Slices : \E pos \in 0..MaxSliceLen : WithPos(slice, pos)
    \/ CursorNext
    \/ CursorPrev
    \/ Current
    \/ PeekNext
    \/ PeekPrev

SpecCursor == InitCursor /\ [][NextCursor]_vars

\* The cursor after call k.
CursorAfter(k) == IF k < Len(calls) THEN calls[k + 1].from ELSE cursor

\* The three-position machine on a sequence of length len: the position
\* after a step forward or backward, and the element at a position.
StepForward(p, len) ==
    IF p.at = "Start" THEN (IF len = 0 THEN [at |-> "End"] ELSE [at |-> "Pos", i |-> 0])
    ELSE IF p.at = "Pos"
    THEN (IF p.i = len - 1 THEN [at |-> "End"] ELSE [at |-> "Pos", i |-> p.i + 1])
    ELSE [at |-> "End"]

StepBackward(p, len) ==
    IF p.at = "End" THEN (IF len = 0 THEN [at |-> "Start"] ELSE [at |-> "Pos", i |-> len - 1])
    ELSE IF p.at = "Pos"
    THEN (IF p.i = 0 THEN [at |-> "Start"] ELSE [at |-> "Pos", i |-> p.i - 1])
    ELSE [at |-> "Start"]

ElementAt(p, slice) == IF p.at = "Pos" THEN Some(slice[p.i + 1]) ELSE None

\* C26: from at_start, at_end or with_pos and after any next/prev calls, next
\* moves Start to At(0) (to End on an empty sequence), At(i) to At(i+1),
\* At(len-1) to End and stays at End, prev mirrors it towards Start, both
\* return the element at the new position or None at End / Start; current
\* returns the element iff the position is At(i); peek_next and peek_prev
\* return what next and prev would, and leave the position alone.
C26_CursorThreePositions ==
    \A k \in 1..Len(calls) :
        LET c == calls[k].from
            p == CursorPos(c)
            len == Len(c.slice)
            after == CursorAfter(k)
            out == calls[k].out
        IN  /\ calls[k].op = "next" =>
                /\ CursorPos(after) = StepForward(p, len)
                /\ out = ElementAt(StepForward(p, len), c.slice)
            /\ calls[k].op = "prev" =>
                /\ CursorPos(after) = StepBackward(p, len)
                /\ out = ElementAt(StepBackward(p, len), c.slice)
            /\ calls[k].op = "current" =>
                after = c /\ out = ElementAt(p, c.slice)
            /\ calls[k].op = "peek_next" =>
                after = c /\ out = ElementAt(StepForward(p, len), c.slice)
            /\ calls[k].op = "peek_prev" =>
                after = c /\ out = ElementAt(StepBackward(p, len), c.slice)

\* peek_next and next returned an element, and the next call of next moved
\* the cursor from the last element to End and returned None.
C26_Witness ==
    /\ Len(calls) = MaxCalls
    /\ calls[1].op = "peek_next" /\ calls[1].out.tag = "Some"
    /\ calls[2].op = "next" /\ calls[2].out.tag = "Some"
    /\ calls[3].op = "next" /\ calls[3].out.tag = "None"
    /\ CursorPos(cursor).at = "End"


-----------------------------------------------------------------------------
(* advance_by and revert_by from every position.                            *)

MaxSteps == 5

AdvanceBy(n) == CursorCall("advance_by", n, advance_by(cursor, n, overflow_checks))
RevertBy(n) == CursorCall("revert_by", n, revert_by(cursor, n, overflow_checks))

NextCursorBy ==
    \/ \E slice \in Slices : AtStart(slice)
    \/ \E slice \in Slices : AtEnd(slice)
    \/ \E slice \in Slices : \E pos \in 0..MaxSliceLen : WithPos(slice, pos)
    \/ \E n \in 0..MaxSteps : AdvanceBy(n)
    \/ \E n \in 0..MaxSteps : RevertBy(n)

SpecCursorBy == InitCursor /\ [][NextCursorBy]_vars

\* next() or prev() called n times on c: the cursor after the calls and the
\* number of calls that returned None.
RECURSIVE NextTimes(_, _)
NextTimes(c, n) ==
    IF n = 0 THEN [cursor |-> c, nones |-> 0]
    ELSE With(NextTimes(c, n - 1), LAMBDA before :
         With(next(before.cursor), LAMBDA r :
             [cursor |-> r.cursor,
              nones |-> before.nones + (IF r.out.tag = "None" THEN 1 ELSE 0)]))

RECURSIVE PrevTimes(_, _)
PrevTimes(c, n) ==
    IF n = 0 THEN [cursor |-> c, nones |-> 0]
    ELSE With(PrevTimes(c, n - 1), LAMBDA before :
         With(prev(before.cursor), LAMBDA r :
             [cursor |-> r.cursor,
              nones |-> before.nones + (IF r.out.tag = "None" THEN 1 ELSE 0)]))

\* out is Ok(()) when no call returned None, Err(nones) otherwise.
SameAsCalls(out, after, calls_made) ==
    /\ out.tag # "Panic"
    /\ after = calls_made.cursor
    /\ IF calls_made.nones = 0 THEN out.tag = "Ok"
       ELSE out.tag = "Err" /\ out.err = calls_made.nones

IsPosition(c) == 0 <= c.pos /\ c.pos <= Len(c.slice) + 1

\* C27: from Start, At(i) and End and for every n, advance_by(n) leaves the
\* cursor where n calls of next() leave it and returns Ok(()) when none of
\* them returns None, Err(k) when k of them do; revert_by(n) does the same
\* with prev(); neither panics.
C27_AdvanceByIsRepeatedNext ==
    \A k \in 1..Len(calls) :
        /\ calls[k].op = "advance_by" /\ IsPosition(calls[k].from) =>
               SameAsCalls(calls[k].out, CursorAfter(k),
                           NextTimes(calls[k].from, calls[k].arg))
        /\ calls[k].op = "revert_by" /\ IsPosition(calls[k].from) =>
               SameAsCalls(calls[k].out, CursorAfter(k),
                           PrevTimes(calls[k].from, calls[k].arg))


-----------------------------------------------------------------------------
(* instant.rs: comparison of instants of different scales, on i64 ticks.   *)

\* Scale::TICKS_PER_SECOND of Seconds, Milliseconds and Nanoseconds.
TICKS_PER_SECOND == [Seconds |-> 1, Milliseconds |-> 1000, Nanoseconds |-> 1000 * 1000 * 1000]
Scales == {"Seconds", "Milliseconds", "Nanoseconds"}

\* t * factor on limbs, for a factor that is a power of 1000.
RECURSIVE TimesFactor(_, _)
TimesFactor(t, factor) ==
    IF factor = 1 THEN t ELSE TimesFactor(XMul(t, 1000), factor \div 1000)

\* num_cmp of two i64 (limbs).
num_cmp(a, b) == IF XLess(a, b) THEN "Less" ELSE IF a = b THEN "Equal" ELSE "Greater"

\* impl PartialEq<Instant<T2, S2>> for Instant<T1, S1>
eq(t1, S1, t2, S2) ==
    With(TICKS_PER_SECOND[S1], LAMBDA s1 :
    With(TICKS_PER_SECOND[S2], LAMBDA s2 :
        IF s1 < s2 THEN XInt(t1) = TimesFactor(XInt(t2), s2 \div s1)
        ELSE IF s1 > s2 THEN TimesFactor(XInt(t1), s1 \div s2) = XInt(t2)
        ELSE t1 = t2))

\* impl PartialOrd<Instant<T2, S2>> for Instant<T1, S1>
partial_cmp(t1, S1, t2, S2) ==
    With(TICKS_PER_SECOND[S1], LAMBDA s1 :
    With(TICKS_PER_SECOND[S2], LAMBDA s2 :
        IF s1 < s2 THEN Some(num_cmp(XInt(t1), TimesFactor(XInt(t2), s2 \div s1)))
        ELSE IF s1 > s2 THEN Some(num_cmp(TimesFactor(XInt(t1), s1 \div s2), XInt(t2)))
        ELSE Some(num_cmp(XInt(t1), XInt(t2)))))

\* Ticks of the instants compared: products with a scale stay inside i64.
InstantTicks ==
    {-2000000000, -1000000000, -1000, -1, 0, 1, 2, 1000, 1000000, 1000000000,
     2000000000}

InstantEq(t1, S1, t2, S2) ==
    /\ pc = "start"
    /\ calls' = Append(calls, [op |-> "eq", arg |-> <<t1, S1, t2, S2>>, from |-> NoDt,
                               out |-> eq(t1, S1, t2, S2)])
    /\ pc' = "compared"
    /\ UNCHANGED <<overflow_checks, builder, dt, carry, error, gdate, loader, cursor>>

InstantPartialCmp(t1, S1, t2, S2) ==
    /\ pc = "start"
    /\ calls' = Append(calls, [op |-> "partial_cmp", arg |-> <<t1, S1, t2, S2>>,
                               from |-> NoDt, out |-> partial_cmp(t1, S1, t2, S2)])
    /\ pc' = "compared"
    /\ UNCHANGED <<overflow_checks, builder, dt, carry, error, gdate, loader, cursor>>

NextInstant ==
    \/ pc = "start" /\ \E t1 \in InstantTicks, t2 \in InstantTicks :
           \E S1 \in Scales, S2 \in Scales : InstantEq(t1, S1, t2, S2)
    \/ pc = "start" /\ \E t1 \in InstantTicks, t2 \in InstantTicks :
           \E S1 \in Scales, S2 \in Scales : InstantPartialCmp(t1, S1, t2, S2)

SpecInstant == InitGnd /\ [][NextInstant]_vars

\* t1 ticks at scale S1 against t2 ticks at scale S2 as times: the order of
\* t1 * s2 against t2 * s1.
TimeOrder(t1, S1, t2, S2) ==
    num_cmp(TimesFactor(XInt(t1), TICKS_PER_SECOND[S2]),
            TimesFactor(XInt(t2), TICKS_PER_SECOND[S1]))

\* C28: instants of different scales compare as the times they stand for: ==
\* holds iff t1 * s2 = t2 * s1, and partial_cmp returns the order of t1 * s2
\* against t2 * s1, in both argument orders.
C28_CrossScaleComparison ==
    \A k \in 1..Len(calls) :
        LET a == calls[k].arg IN
        /\ calls[k].op = "eq" =>
               (calls[k].out <=> TimeOrder(a[1], a[2], a[3], a[4]) = "Equal")
        /\ calls[k].op = "partial_cmp" =>
               calls[k].out = Some(TimeOrder(a[1], a[2], a[3], a[4]))


-----------------------------------------------------------------------------
(* zoneinfo.rs: get_leap_second_adjustment.                                 *)

\* Rust's `/` on signed integers truncates towards zero.
Magnitude(a) == IF a >= 0 THEN a ELSE -a
DivTrunc(a, b) ==
    IF (a >= 0) = (b > 0) THEN Magnitude(a) \div Magnitude(b)
    ELSE -(Magnitude(a) \div Magnitude(b))

\* The cursor of by_day read as get_leap_second_adjustment reads it: at_start
\* is 0, at_end is peek_prev() (the last segment), a position is current().
get_leap_second_adjustment(unix_timestamp) ==
    With(DivTrunc(unix_timestamp, 86400), LAMBDA d :
    With(by_day(d), LAMBDA found :
        IF found.kind = "AssertFailed" THEN Panic
        ELSE IF found.kind = "BeforeFirst" THEN Some(0)
        ELSE IF found.kind = "AfterLast"
        THEN With(peek_prev(at_end(Segments)), LAMBDA segment :
                 IF segment.out.tag = "None" THEN Panic
                 ELSE Some(segment.out.v.accumulated_leap_seconds))
        ELSE Some(found.segment.accumulated_leap_seconds)))

\* The first, a middle and the last second of the first and last day of every
\* segment and of the days next to them, and timestamps before the epoch and
\* after the last segment.
AdjustmentTimestamps ==
    UNION {{d * 86400 + sod : sod \in {0, 43200, 86399}} :
              d \in (LookupDays \ {I32_MIN, I32_MAX}) \cup {-365, 18000, 24000}}

GetLeapSecondAdjustment(unix_timestamp) ==
    /\ pc = "start"
    /\ pc' = "found"
    /\ calls' = Append(calls, [op |-> "get_leap_second_adjustment",
                               arg |-> unix_timestamp, from |-> NoGnd,
                               out |-> get_leap_second_adjustment(unix_timestamp)])
    /\ UNCHANGED <<overflow_checks, builder, dt, carry, error, gdate, loader, cursor>>

NextAdjustment ==
    pc = "start" /\ \E unix_timestamp \in AdjustmentTimestamps :
        GetLeapSecondAdjustment(unix_timestamp)

SpecAdjustment == InitGnd /\ [][NextAdjustment]_vars

\* The leap seconds inserted up to day d: none before the first segment, those
\* of the earlier segments inside a segment, those of all segments from the
\* last segment's end day on.
LeapSecondsUpTo(d) ==
    IF d < Segments[1].start_day THEN 0
    ELSE IF d >= end_day(Segments[Len(Segments)])
    THEN SumLeapSeconds(Segments, Len(Segments))
    ELSE SumLeapSeconds(Segments, (CHOOSE n \in SegmentsOfDay(d) : TRUE) - 1)

\* C29: get_leap_second_adjustment(unix_timestamp) is the number of leap
\* seconds inserted up to the day of the timestamp: 0 before the first
\* segment, the sum of the leap_seconds of the earlier segments on a day inside
\* a segment, and the sum of the leap_seconds of all segments, the last one
\* included, on or after the last segment's end day.
C29_LeapSecondAdjustment ==
    \A k \in 1..Len(calls) :
        calls[k].op = "get_leap_second_adjustment" =>
            /\ calls[k].out.tag = "Some"
            /\ calls[k].out.v = LeapSecondsUpTo(calls[k].arg \div 86400)


-----------------------------------------------------------------------------
(* div_rem.rs: div_rem_ceil.                                                *)

\* num_integer's Integer::div_rem: the truncated quotient and its remainder.
div_rem(a, b) == With(DivTrunc(a, b), LAMBDA q : <<q, a - q * b>>)

div_rem_ceil(a, b) ==
    IF a > 0 /\ b < 0
    THEN With(div_rem(a - 1, b), LAMBDA qr : <<qr[1] - 1, qr[2] + b - 1>>)
    ELSE IF a < 0 /\ b > 0
    THEN With(div_rem(a + 1, b), LAMBDA qr : <<qr[1] - 1, qr[2] + b + 1>>)
    ELSE div_rem(a, b)

MaxDividend == 12
MaxDivisor == 5

DivRemCeil(a, b) ==
    /\ pc = "start"
    /\ pc' = "divided"
    /\ calls' = Append(calls, [op |-> "div_rem_ceil", arg |-> <<a, b>>, from |-> NoDt,
                               out |-> div_rem_ceil(a, b)])
    /\ UNCHANGED <<overflow_checks, builder, dt, carry, error, gdate, loader, cursor>>

NextDivRem ==
    pc = "start" /\ \E a \in (-MaxDividend)..MaxDividend :
        \E b \in ((-MaxDivisor)..MaxDivisor) \ {0} : DivRemCeil(a, b)

SpecDivRem == InitGnd /\ [][NextDivRem]_vars

\* q is ceil(a / b): the least integer that is no less than a / b.
IsCeil(q, a, b) ==
    IF b > 0 THEN q * b >= a /\ (q - 1) * b < a
    ELSE q * b <= a /\ (q - 1) * b > a

\* C30: for all signed a and b # 0, div_rem_ceil(a, b) is (q, r) with
\* q = ceil(a / b) and r = q * b - a.
C30_DivRemCeil ==
    \A k \in 1..Len(calls) :
        calls[k].op = "div_rem_ceil" =>
            LET a == calls[k].arg[1]
                b == calls[k].arg[2]
                q == calls[k].out[1]
                r == calls[k].out[2]
            IN  IsCeil(q, a, b) /\ r = q * b - a

====
